---- MODULE Spec2Model ----
(***************************************************************************)
(* Lead-enrichment orchestrator (LeadEnrichmentOrchestrator), its          *)
(* collaborators ValidationService and RateLimiter, modelled from the      *)
(* Python sources.  Exceptions are values: an operator that can raise      *)
(* returns a record with an "exc" field naming the exception class.        *)
(***************************************************************************)
EXTENDS Integers, Sequences, FiniteSets, TLC

(***************************************************************************)
(* Bounds of the model.                                                    *)
(***************************************************************************)
NCalls == 2
MaxSmall == 1
MaxFaults == 3
NWorkers == 3
MaxK == 2
MaxCands == 1
MaxMerged == 2
MaxSearches == 1

(***************************************************************************)
(* Program constants.                                                      *)
(***************************************************************************)
TTL == 86400
MaxRetryAttempt == 2
BackoffBase == 2
Scale == 1000
min_confidence_threshold == 700
max_total_results == 5
DefaultBaseConfidence == 500
FallbackConfidence == 500
CrossBoostNum == 12
CrossBoostDen == 10
max_attempts == 3
timeout_seconds == 300

Sources == {"apollo", "rocketreach"}

source_weights == [s \in Sources |-> IF s = "apollo" THEN 600 ELSE 400]

NoExc == "none"

(***************************************************************************)
(* Python attribute lookup.  The orchestrator class defines these methods  *)
(* and no others; RateLimiter defines acquire and execute only.  Looking   *)
(* up any other name raises AttributeError.                                *)
(***************************************************************************)
OrchestratorMethods ==
    {"enrich_company", "_rate_limited_search", "_retry_failed_search",
     "_merge_results", "_validate_contact_info", "_calculate_confidence",
     "_cross_validate_results", "_compute_validation_score", "process_batch",
     "_check_cache", "_cache_result", "_check_email_format", "export_results",
     "cleanup", "_cleanup_cache_files", "get_orchestrator_metrics"}

RateLimiterMethods == {"acquire", "execute"}

ValidationServiceAttrs ==
    {"email_pattern", "validation_history", "pattern_cache",
     "confidence_threshold", "history_file", "validation_metrics"}

(***************************************************************************)
(* Strings are sequences of one-character strings.                         *)
(***************************************************************************)
IsAlpha(ch) == ch \in {"j", "o", "h", "n", "d"}
IsDigit(ch) == ch \in {"1"}
IsWordChar(ch) == IsAlpha(ch) \/ IsDigit(ch) \/ ch = "_"

\* email_pattern r'^[\w\.-]+@[\w\.-]+\.\w+$' on an address local@dom whose
\* dom is one of the well-formed domains of the model
EmailPatternMatches(email) ==
    /\ email.kind = "ok"
    /\ Len(email.local) >= 1
    /\ \A i \in 1..Len(email.local) :
          IsWordChar(email.local[i]) \/ email.local[i] \in {".", "-"}

(***************************************************************************)
(* Learned patterns.  A pattern is the sequence of its parts, the pieces   *)
(* between the escaped dots; a part is a sequence of items.                *)
(***************************************************************************)
ItAlpha == [t |-> "alpha"]
ItDigit == [t |-> "digit"]
ItLit(ch) == [t |-> "lit", c |-> ch]
ItAlt(p1, p2) == [t |-> "alt", a |-> p1, b |-> p2]
ItOpt(p) == [t |-> "opt", p |-> p]

RECURSIVE SplitDot(_, _)
\* str.split('.') : acc is the piece being read
SplitDot(s, acc) ==
    IF s = <<>> THEN <<acc>>
    ELSE IF Head(s) = "." THEN <<acc>> \o SplitDot(Tail(s), <<>>)
    ELSE SplitDot(Tail(s), Append(acc, Head(s)))

RECURSIVE GeneratePart(_)
\* _generate_pattern on a piece without dots
GeneratePart(s) ==
    IF s = <<>> THEN <<>>
    ELSE <<(IF IsAlpha(Head(s)) THEN ItAlpha
            ELSE IF IsDigit(Head(s)) THEN ItDigit
            ELSE ItLit(Head(s)))>> \o GeneratePart(Tail(s))

\* the pattern of each piece of a split local part
GeneratePieces(pieces) == [i \in 1..Len(pieces) |-> GeneratePart(pieces[i])]

\* _generate_pattern(local_part): the dots become the escaped dots at which
\* _merge_patterns later splits the pattern
GeneratePattern(local) == GeneratePieces(SplitDot(local, <<>>))

MergePatternParts(p1, p2) == IF p1 = p2 THEN p1 ELSE <<ItAlt(p1, p2)>>

Max2(a, b) == IF a > b THEN a ELSE b

\* the loop of _merge_patterns over range(max(len(current_parts), len(new_parts)))
MergeParts(current, new_parts) ==
    [i \in 1..Max2(Len(current), Len(new_parts)) |->
          IF i <= Len(current) /\ i <= Len(new_parts)
          THEN MergePatternParts(current[i], GeneratePart(new_parts[i]))
          ELSE <<ItOpt(IF i <= Len(current) THEN current[i]
                       ELSE GeneratePart(new_parts[i]))>>]

\* _merge_patterns(current, new_local)
MergePatterns(current, new_local) == MergeParts(current, SplitDot(new_local, <<>>))

RECURSIVE JoinParts(_)
\* r'\.'.join(parts)
JoinParts(parts) ==
    IF parts = <<>> THEN <<>>
    ELSE IF Len(parts) = 1 THEN parts[1]
    ELSE parts[1] \o <<ItLit(".")>> \o JoinParts(Tail(parts))

RECURSIVE MatchSeq(_, _, _)
RECURSIVE MatchItem(_, _, _)
\* end positions of the matches of one item starting at pos
MatchItem(item, s, pos) ==
    CASE item.t = "alpha" ->
           IF pos <= Len(s) /\ IsAlpha(s[pos]) THEN {pos + 1} ELSE {}
      [] item.t = "digit" ->
           IF pos <= Len(s) /\ IsDigit(s[pos]) THEN {pos + 1} ELSE {}
      [] item.t = "lit" ->
           IF pos <= Len(s) /\ s[pos] = item.c THEN {pos + 1} ELSE {}
      [] item.t = "alt" ->
           MatchSeq(item.a, s, {pos}) \cup MatchSeq(item.b, s, {pos})
      [] item.t = "opt" ->
           {pos} \cup MatchSeq(item.p, s, {pos})

MatchSeq(items, s, starts) ==
    IF items = <<>> THEN starts
    ELSE MatchSeq(Tail(items), s,
                  UNION {MatchItem(Head(items), s, p) : p \in starts})

\* bool(re.match(pattern, local_part)): a match of a prefix
ReMatch(pattern, local) == MatchSeq(JoinParts(pattern), local, {1}) # {}

(***************************************************************************)
(* ValidationService.  An email is [kind, local, dom]: kind "none" is a    *)
(* missing or empty email, "noat" a text without '@' (kept in local), "ok" *)
(* the address local@dom.                                                  *)
(***************************************************************************)
Domains == {"acme.com", "beta.com", "gmail.com"}
NoDomain == ""
NoEmail == [kind |-> "none", local |-> <<>>, dom |-> NoDomain]
NoPattern == [has |-> FALSE, pat |-> <<>>]
EmptyPatternCache == [d \in Domains |-> NoPattern]

\* _update_pattern_learning(email)
UpdatePatternLearning(email, pcache) ==
    IF ~pcache[email.dom].has
    THEN [pcache EXCEPT ![email.dom] =
             [has |-> TRUE, pat |-> GeneratePattern(email.local)]]
    ELSE [pcache EXCEPT ![email.dom] =
             [has |-> TRUE, pat |-> MergePatterns(pcache[email.dom].pat, email.local)]]

\* confidence *= num/10 when a check fails
Penalize(confidence, failed, num) ==
    IF failed THEN (confidence * num) \div 10 ELSE confidence

\* the ValidationResult for the three checks' outcomes
EmailVerdict(e1, e2, e3, pcache) ==
    [is_valid |-> ~(e1 \/ e2 \/ e3),
     confidence |-> Penalize(Penalize(Penalize(Scale, e1, 3), e2, 5), e3, 7),
     pcache |-> pcache]

\* validate_email(email, domain): the ValidationResult and the pattern cache
\* it leaves.  A text without '@' makes email.split('@')[1] raise IndexError,
\* which the method answers with is_valid False, confidence 0.0.
ValidateEmail(email, domain, pcache) ==
    IF email.kind # "ok"
    THEN [is_valid |-> FALSE, confidence |-> 0, pcache |-> pcache]
    ELSE EmailVerdict(~EmailPatternMatches(email),
                      domain # NoDomain /\ email.dom # domain,
                      /\ pcache[email.dom].has
                      /\ ~ReMatch(pcache[email.dom].pat, email.local),
                      UpdatePatternLearning(email, pcache))

(***************************************************************************)
(* Raw candidates [name, title, email, conf] and the orchestrator's gate.  *)
(***************************************************************************)
Names == {"John Doe", "john doe", "John"}
Titles == {"CFO", "Chief Financial Officer", "Engineer"}
NoConf == 0 - 1

\* len(name.split())
NameParts(name) == IF name = "John" THEN 1 ELSE 2

\* any(title.lower() in result['title'].lower() for title in TARGET_TITLES)
TitleValid(title) == title \in {"CFO", "Chief Financial Officer"}

\* "Pattern validation if available" and all([...]) of _validate_contact_info,
\* ev being what validate_email gave
ContactVerdict(cand, domain, ev) ==
    [ok |-> /\ TitleValid(cand.title)
            /\ NameParts(cand.name) >= 2
            /\ ev.is_valid
            /\ (domain \in Domains /\ ev.pcache[domain].has)
                  => ReMatch(ev.pcache[domain].pat, cand.email.local),
     pcache |-> ev.pcache]

\* _validate_contact_info(result, domain): the verdict and the pattern cache
ValidateContactInfo(cand, domain, pcache) ==
    IF cand.email.kind = "none"
    THEN [ok |-> FALSE, pcache |-> pcache]
    ELSE ContactVerdict(cand, domain, ValidateEmail(cand.email, domain, pcache))

\* mean of the configured weights of the sources present
SourceWeight(srcs) ==
    IF srcs = Sources THEN (source_weights["apollo"] + source_weights["rocketreach"]) \div 2
    ELSE source_weights[CHOOSE s \in srcs : TRUE]

\* weighted_confidence *= 1.1 when a match holds
Boost(confidence, holds) == IF holds THEN (confidence * 11) \div 10 ELSE confidence

Min2(a, b) == IF a < b THEN a ELSE b

\* _calculate_confidence(result, domain).  result['sources'] raises KeyError
\* for a raw candidate, and validation_service.validation_cache raises
\* AttributeError for every result: both end in the except branch.
CalculateConfidence(result, has_sources, domain) ==
    IF ~has_sources THEN FallbackConfidence
    ELSE IF "validation_cache" \notin ValidationServiceAttrs THEN FallbackConfidence
    ELSE Min2(Boost(Boost(((IF result.conf = NoConf THEN DefaultBaseConfidence
                            ELSE result.conf) * SourceWeight(result.sources)) \div Scale,
                          result.email.dom = domain),
                    TitleValid(result.title)),
              Scale)

(***************************************************************************)
(* _merge_results.  The value a source task hands to gather is             *)
(* [kind |-> "list", val |-> candidates] or [kind |-> "exc", exc |-> class]*)
(* (gather is called with return_exceptions=True).                         *)
(***************************************************************************)
ListResult(cands) == [kind |-> "list", val |-> cands, exc |-> NoExc]
ExcResult(cls) == [kind |-> "exc", val |-> <<>>, exc |-> cls]

\* a lookup that finds every method
LookupMethodDefined(name) == NoExc

\* self.<name>: the exception the lookup raises
LookupMethod(name) ==
    IF name \in OrchestratorMethods THEN NoExc ELSE "AttributeError"

RECURSIVE MergeLoop(_, _, _)
RECURSIVE MergeStep(_, _, _)
\* the loop body for the head of cands, v being what _validate_contact_info
\* gave for it.  A candidate that passes reaches
\* self._generate_result_key(result), a method the class does not define:
\* AttributeError leaves the loop, and the rest of the body is never run.
MergeStep(cands, domain, v) ==
    IF ~v.ok THEN MergeLoop(Tail(cands), domain, v.pcache)
    ELSE [exc |-> LookupMethod("_generate_result_key"), pcache |-> v.pcache]

\* one "for result in ..._results" loop
MergeLoop(cands, domain, pcache) ==
    IF cands = <<>> THEN [exc |-> NoExc, pcache |-> pcache]
    ELSE MergeStep(cands, domain, ValidateContactInfo(Head(cands), domain, pcache))

\* max(source_weights[s] for s in x['sources'])
MaxWeight(srcs) ==
    IF "apollo" \in srcs THEN source_weights["apollo"] ELSE source_weights["rocketreach"]

\* x sorts before y under key (confidence, max weight), reverse=True
SortsBefore(x, y) ==
    \/ x.conf > y.conf
    \/ x.conf = y.conf /\ MaxWeight(x.sources) > MaxWeight(y.sources)

RECURSIVE InsertSorted(_, _)
InsertSorted(sorted, x) ==
    IF sorted = <<>> THEN <<x>>
    ELSE IF SortsBefore(x, Head(sorted)) THEN <<x>> \o sorted
    ELSE <<Head(sorted)>> \o InsertSorted(Tail(sorted), x)

RECURSIVE SortDesc(_)
SortDesc(xs) ==
    IF xs = <<>> THEN <<>>
    ELSE InsertSorted(SortDesc(SubSeq(xs, 1, Len(xs) - 1)), xs[Len(xs)])

\* the threshold test against the fallback confidence
MeetsFallback(conf) == conf >= FallbackConfidence

MeetsThreshold(conf) == conf >= min_confidence_threshold

KeepsConfident(x) == MeetsThreshold(x.conf)

\* prioritized[:n]
Truncate(xs, n) == SubSeq(xs, 1, Min2(Len(xs), n))

\* filter by threshold, sort, truncate to max_total_results
Prioritize(merged) ==
    Truncate(SortDesc(SelectSeq(merged, KeepsConfident)), max_total_results)

\* the end of _merge_results, r being what the RocketReach loop gave
MergeAfterRocket(r) ==
    IF r.exc # NoExc
    THEN [out |-> <<>>, pcache |-> r.pcache, exc |-> r.exc]
    ELSE [out |-> Prioritize(<<>>), pcache |-> r.pcache, exc |-> NoExc]

\* _merge_results after the Apollo loop, a being what that loop gave
MergeAfterApollo(a, rr, domain) ==
    IF a.exc # NoExc
    THEN [out |-> <<>>, pcache |-> a.pcache, exc |-> a.exc]
    ELSE IF rr.kind # "list"
    THEN [out |-> <<>>, pcache |-> a.pcache, exc |-> "TypeError"]
    ELSE MergeAfterRocket(MergeLoop(rr.val, domain, a.pcache))

\* _merge_results(apollo_results, rocket_results, domain): the list returned,
\* the pattern cache left, and the exception its except branch swallowed.
\* Iterating an exception object raises TypeError.
MergeResults(ar, rr, domain, pcache) ==
    IF ar.kind # "list"
    THEN [out |-> <<>>, pcache |-> pcache, exc |-> "TypeError"]
    ELSE MergeAfterApollo(MergeLoop(ar.val, domain, pcache), rr, domain)

(***************************************************************************)
(* _cross_validate_results.  A merged contact is                           *)
(* [name, title, email, conf, sources, validated, cross_validated, score], *)
(* cross_validated being "unset" while the key is absent.                  *)
(***************************************************************************)
\* _check_email_format(email)
CheckEmailFormat(email) ==
    /\ email.kind = "ok"
    /\ \A i \in 1..Len(email.local) :
          IsAlpha(email.local[i]) \/ IsDigit(email.local[i])
             \/ email.local[i] \in {".", "-", "_"}
    /\ Len(email.local) >= 1 => email.local[1] # "." /\ email.local[Len(email.local)] # "."
    /\ \A i \in 1..(Len(email.local) - 1) :
          ~(email.local[i] = "." /\ email.local[i + 1] = ".")

\* score += 1
Point(holds) == IF holds THEN 1 ELSE 0

\* _compute_validation_score(result, domain), in units of 1/Scale
ComputeValidationScore(result, domain) ==
    ((Point(CheckEmailFormat(result.email)) + Point(result.email.dom = domain)
      + Point(TitleValid(result.title)) + Point(Cardinality(result.sources) > 1))
     * Scale) \div 4

\* "Cross-validate sources" (lines 463-471), ev being what validate_email gave
CrossBoost(result, ev) ==
    IF Cardinality(result.sources) > 1
    THEN [result EXCEPT !.conf = (result.conf * CrossBoostNum) \div CrossBoostDen,
                        !.cross_validated = "true"]
    ELSE IF ev.is_valid
    THEN [result EXCEPT !.conf = (result.conf * ev.confidence) \div Scale,
                        !.cross_validated = "false"]
    ELSE result

\* lines 474-479 for the boosted result: in _compute_validation_score,
\* result['email'].split('@')[1] raises IndexError for a text without '@'
\* and result['email'].split raises AttributeError for None
CrossScore(boosted, domain, pcache) ==
    IF boosted.email.kind # "ok"
    THEN [keep |-> FALSE, res |-> boosted, pcache |-> pcache,
          exc |-> IF boosted.email.kind = "none" THEN "AttributeError"
                  ELSE "IndexError"]
    ELSE [keep |-> MeetsThreshold(boosted.conf),
          res |-> [boosted EXCEPT !.score = ComputeValidationScore(boosted, domain),
                                  !.validated = MeetsThreshold(boosted.conf)],
          pcache |-> pcache, exc |-> NoExc]

\* the loop body after validate_email
CrossAfterEmail(result, domain, ev) ==
    CrossScore(CrossBoost(result, ev), domain, ev.pcache)

\* the body of the loop for one result: the result as the loop leaves it and
\* whether it is appended to validated
CrossValidateOne(result, domain, pcache) ==
    IF result.validated
    THEN [keep |-> TRUE, res |-> result, pcache |-> pcache, exc |-> NoExc]
    ELSE CrossAfterEmail(result, domain, ValidateEmail(result.email, domain, pcache))

\* validated and the count of logged exceptions, one being what the loop body
\* gave for the first result and rest what the loop gave for the others
CrossJoin(one, rest) ==
    [out |-> (IF one.keep THEN <<one.res>> ELSE <<>>) \o rest.out,
     pcache |-> rest.pcache,
     errs |-> rest.errs + (IF one.exc = NoExc THEN 0 ELSE 1)]

RECURSIVE CrossValidate(_, _, _)
RECURSIVE CrossRest(_, _, _)
CrossRest(one, results, domain) ==
    CrossJoin(one, CrossValidate(Tail(results), domain, one.pcache))

\* _cross_validate_results(results, domain): validated, the pattern cache
\* left and the number of per-result exceptions logged
CrossValidate(results, domain, pcache) ==
    IF results = <<>> THEN [out |-> <<>>, pcache |-> pcache, errs |-> 0]
    ELSE CrossRest(CrossValidateOne(Head(results), domain, pcache), results, domain)

(***************************************************************************)
(* The orchestrator.                                                       *)
(***************************************************************************)
Calls == 1..NCalls
Companies == {"Acme", "Beta"}
DomainOf(company) == IF company = "Acme" THEN "acme.com" ELSE "beta.com"

\* cache_key = f"{company_name}:{domain}"
CacheKey(company, domain) == <<company, domain>>
CacheKeys == {CacheKey(c, DomainOf(c)) : c \in Companies}

Local_john == <<"j", "o", "h", "n">>
Local_jd == <<"j", ".", "d">>
Addr(local, dom) == [kind |-> "ok", local |-> local, dom |-> dom]
NoAt(local) == [kind |-> "noat", local |-> local, dom |-> NoDomain]
GoodCand(dom) ==
    [name |-> "John Doe", title |-> "CFO", email |-> Addr(Local_john, dom), conf |-> 900]

\* the sources whose search raises in the runs explored
FaultySources == {"apollo"}

\* what a source agent's search may return for a company
AgentLists(company) == {<<>>, <<GoodCand(DomainOf(company))>>}

NoResult == [kind |-> "none", val |-> <<>>, exc |-> NoExc]
NoEnrichment == [contacts |-> <<>>, error_details |-> NoExc, made |-> FALSE]
\* EnrichmentResult(company_name, contacts, error_details)
EnrichmentResult(contacts, err) ==
    [contacts |-> contacts, error_details |-> err, made |-> TRUE]

NoEntry == [present |-> FALSE, corrupt |-> FALSE, result |-> NoEnrichment, timestamp |-> 0]
CacheEntry(result, ts) ==
    [present |-> TRUE, corrupt |-> FALSE, result |-> result, timestamp |-> ts]

\* a contact as a cache file written by an earlier run holds it
StoredContact(dom) ==
    [name |-> "John Doe", title |-> "CFO", email |-> Addr(Local_john, dom),
     conf |-> 840, sources |-> Sources, validated |-> TRUE,
     cross_validated |-> "true", score |-> Scale]

NoState == [present |-> FALSE, company |-> "", stage |-> "", errors |-> <<>>,
            retry_counts |-> [s \in Sources |-> 0], status |-> "", owner |-> 0]
\* EnrichmentState(company=company_name, stage='initializing'); owner is the
\* call that constructed it (not a field of the program)
NewState(company, c) ==
    [present |-> TRUE, company |-> company, stage |-> "initializing",
     errors |-> <<>>, retry_counts |-> [s \in Sources |-> 0],
     status |-> "running", owner |-> c]

NoAge == 0 - 1

\* a call of enrich_company: its position, arguments and result, and what
\* the run has seen of it (not fields of the program): how it returned, the
\* age of the cache entry it returned, whether _check_cache found an entry
\* too old, and whether the call was made after the call before it returned,
\* for the same key, neither forcing a refresh, less than the TTL after the
\* start of the run
IdleCall == [pc |-> "idle", company |-> "", force |-> FALSE,
             result |-> NoEnrichment, how |-> "none", age |-> NoAge,
             stale |-> FALSE, follows |-> FALSE]

\* a source task: position, the attempt argument of _retry_failed_search,
\* the number of times the agent's search was invoked and raised, the sleeps
\* made, what the agent's search returned, and the task's outcome
NoTask == [pc |-> "none", attempt |-> 0, invocations |-> 0, fails |-> 0,
           sleeps |-> <<>>, returned |-> NoResult, result |-> NoResult]

(***************************************************************************)
(* process_batch: its workers (process_with_semaphore), one per company of *)
(* the list.                                                               *)
(***************************************************************************)
Workers == 1..NWorkers
NoWorker == [pc |-> "none", company |-> ""]

(***************************************************************************)
(* Inputs of _merge_results and _cross_validate_results called directly.   *)
(***************************************************************************)
CandEmails(dom) ==
    {Addr(Local_john, dom), Addr(Local_jd, dom), Addr(Local_john, "gmail.com"),
     NoAt(Local_john), NoEmail}

\* raw candidates a source can return
Candidates(dom) ==
    [name : Names, title : Titles, email : CandEmails(dom), conf : {900, NoConf}]

RECURSIVE ListsUpTo(_, _)
\* the sequences over S of length at most n
ListsUpTo(S, n) ==
    IF n = 0 THEN {<<>>}
    ELSE {<<>>} \cup {<<x>> \o l : x \in S, l \in ListsUpTo(S, n - 1)}

\* merged contacts as _merge_results hands them to _cross_validate_results:
\* no 'validated', 'cross_validated' or 'validation_score' key yet
MergedContacts(dom) ==
    [name : {"John Doe"}, title : {"CFO", "Engineer"},
     email : {Addr(Local_john, dom), Addr(Local_john, "gmail.com"), NoAt(Local_john)},
     conf : {550, 600, 700, 850},
     sources : {{"apollo"}, {"rocketreach"}, Sources},
     validated : {FALSE}, cross_validated : {"unset"}, score : {NoConf}]

\* the coroutine of cleanup(): its position, the set object its loop iterates,
\* the tasks the loop has taken, the task it awaits, and the exception that
\* ended it in its except branch
NoTarget == <<0, "">>
IdleCleaner == [pc |-> "idle", iter |-> {}, visited |-> {}, target |-> NoTarget,
                failed |-> NoExc]

(***************************************************************************)
(* NavigationStateMachine (services/navigation_state.py).  The members of  *)
(* the enum NavigationState are named by their names; StateValue gives the *)
(* value of a member.                                                      *)
(***************************************************************************)
None == "None"

NavigationState ==
    {"INITIAL", "SEARCHING", "PERSON_FOUND", "EMAIL_FOUND", "VALIDATING",
     "RETRYING", "ERROR", "COMPLETE"}

\* member.value
StateValue(member) ==
    CASE member = "INITIAL" -> "initial"
      [] member = "SEARCHING" -> "searching"
      [] member = "PERSON_FOUND" -> "person_found"
      [] member = "EMAIL_FOUND" -> "email_found"
      [] member = "VALIDATING" -> "validating"
      [] member = "RETRYING" -> "retrying"
      [] member = "ERROR" -> "error"
      [] member = "COMPLETE" -> "complete"

\* NavigationState[name]: the member of that name, or KeyError
StateByName(name) ==
    IF name \in NavigationState
    THEN [exc |-> NoExc, member |-> name]
    ELSE [exc |-> "KeyError", member |-> None]

\* self.context = None
NoContext ==
    [present |-> FALSE, current_state |-> None, target_company |-> None,
     target_role |-> None, found_person |-> None, found_email |-> None,
     attempts |-> 0, start_time |-> 0, parallel_tasks |-> {}]

\* NavigationContext(current_state, target_company, target_role, ...) made at
\* time t; confidence_score and action_history keep their defaults 0.0 and []
\* throughout and are left out
NavigationContext(state, company, role, person, email, attempts, t) ==
    [present |-> TRUE, current_state |-> state, target_company |-> company,
     target_role |-> role, found_person |-> person, found_email |-> email,
     attempts |-> attempts, start_time |-> t, parallel_tasks |-> {}]

\* the state_data dict of _save_state
StateData(ctx) ==
    [current_state |-> StateValue(ctx.current_state),
     target_company |-> ctx.target_company, target_role |-> ctx.target_role,
     found_person |-> ctx.found_person, found_email |-> ctx.found_email,
     attempts |-> ctx.attempts]

NoData ==
    [current_state |-> None, target_company |-> None, target_role |-> None,
     found_person |-> None, found_email |-> None, attempts |-> 0]

\* the file at persistence_path; by tells which coroutine wrote it
NoFile == [present |-> FALSE, by |-> None, data |-> NoData]

\* a write of _save_state that has built state_data and waits for the file
NoSave == [active |-> FALSE, by |-> None, data |-> NoData]

\* an action_result dict: the keys the handlers read; a flag that is FALSE
\* and a value that is None stand for a missing key
NoEvent ==
    [success |-> FALSE, person_found |-> None, email_found |-> None,
     validation_success |-> None, retry_needed |-> FALSE, reset |-> FALSE,
     retry |-> FALSE]

Events ==
    {NoEvent,
     [NoEvent EXCEPT !.success = TRUE],
     [NoEvent EXCEPT !.person_found = "Jane Roe"],
     [NoEvent EXCEPT !.email_found = "jane@testco.com"],
     [NoEvent EXCEPT !.email_found = "jane@testco.com", !.validation_success = "False"],
     [NoEvent EXCEPT !.email_found = "jane@testco.com", !.validation_success = "True"],
     [NoEvent EXCEPT !.validation_success = "False"],
     [NoEvent EXCEPT !.reset = TRUE],
     [NoEvent EXCEPT !.retry = TRUE],
     [NoEvent EXCEPT !.retry = TRUE, !.success = TRUE],
     [NoEvent EXCEPT !.retry_needed = TRUE, !.success = TRUE]}

\* what the run has seen of the last step of the machine (not a field of the
\* program): the step, the state and attempts before it, the event, the
\* seconds since start_time, the exception raised, the context it left, the
\* file it read, the background tasks that were running before it, and
\* whether the transition before it had left SEARCHING with attempts used up
NoStep ==
    [kind |-> None, from |-> None, before |-> 0, ev |-> NoEvent, elapsed |-> 0,
     exc |-> NoExc, ctx |-> NoContext, read |-> NoFile, running |-> {},
     armed |-> FALSE]

\* NavigationStateMachine() after __init__, with the clock and the caller's
\* position: no context, no monitor, no validation task, no file
NoMachine ==
    [context |-> NoContext, timeout_monitor |-> FALSE, validation |-> FALSE,
     clock |-> 0, file |-> NoFile, pc |-> "idle", save |-> NoSave,
     monitor_save |-> NoSave, searches |-> 0, exhausted |-> FALSE,
     last |-> NoStep]

(***************************************************************************)
(* RateLimiter (src/utils/rate_limiter.py).  Times are whole seconds.      *)
(***************************************************************************)
NCallers == 3
MaxTime == 80
MaxRaises == 1
rate_limit == 2
window_size == 60
limiter_max_concurrent == 1
RetryStop == 3
RetryWaitMin == 4

Callers == 1..NCallers
LimiterKeys == {"default", "test"}
TickSizes == {20}

\* a caller of acquire or execute: its position, the key and entry point it
\* used, the number of runs of execute that tenacity has started, the time
\* its sleep ends, and what the run has seen of it (not fields of the
\* program): when its sleep began, whether it slept, when it was granted
IdleCaller == [pc |-> "idle", key |-> "", via |-> "", attempts |-> 0, until |-> 0,
               since |-> 0, waited |-> FALSE, granted_at |-> 0]

\* RateLimiter(requests_per_minute=rate_limit): requests is the defaultdict
\* of lists; clock is datetime.now(); grants is every timestamp ever appended
\* for a key, raises the number of func calls that raised (neither is a field
\* of the program)
IdleLimiter == [requests |-> [k \in LimiterKeys |-> <<>>],
                semaphore |-> limiter_max_concurrent,
                clock |-> 0,
                callers |-> [c \in Callers |-> IdleCaller],
                grants |-> [k \in LimiterKeys |-> <<>>],
                raises |-> 0]

(***************************************************************************)
(* ResultCollector (src/services/result_collector.py).                     *)
(***************************************************************************)
MaxOps == 3

CompanyNames == {"Acme", "ACME", "Beta"}
PersonNames == {"Jo", "Al"}
ResultEmails == {"None", "jo@acme.com"}
Confidences == {800, 900}
FoundAts == {1, 2}

\* str.lower() on the names of the model
Lower(s) ==
    CASE s \in {"Acme", "ACME"} -> "acme"
      [] s = "Beta" -> "beta"
      [] s = "Jo" -> "jo"
      [] s = "Al" -> "al"
      [] OTHER -> s

\* _generate_result_key(result); no name of the model holds a space
GenerateResultKey(result) == Lower(result.company_name) \o "_" \o Lower(result.person_name)

\* SearchResult(company_name, person_name, email, confidence, found_at)
SearchResults ==
    [company_name : CompanyNames, person_name : PersonNames, email : ResultEmails,
     confidence : Confidences, found_at : FoundAts, present : {TRUE}]
Absent == [company_name |-> "", person_name |-> "", email |-> "None", confidence |-> 0,
           found_at |-> 0, present |-> FALSE]

ResultKeys == {GenerateResultKey(r) : r \in SearchResults}
CompanyKeys == {Lower(c) : c \in CompanyNames}

\* what the last operation was (not a field of the program): its name, key
\* and argument, what it returned, and the result stored under the key before
NoUpdate == [field |-> "", num |-> 0, str |-> ""]
NoOp == [op |-> "none", key |-> "", arg |-> Absent, upd |-> NoUpdate, ret |-> FALSE,
         before |-> Absent]

\* the updates dicts given to update_result, one field each
Updates ==
    {[field |-> "confidence", num |-> 900, str |-> ""],
     [field |-> "email", num |-> 0, str |-> "jo@acme.com"],
     [field |-> "person_name", num |-> 0, str |-> "Al"],
     [field |-> "company_name", num |-> 0, str |-> "Beta"]}

\* ResultCollector(storage_dir) on an empty directory: results, company_cache
\* and the directory's files by stem
EmptyCollector == [results |-> [k \in ResultKeys |-> Absent],
                   company_cache |-> [c \in CompanyKeys |-> {}],
                   files |-> [k \in ResultKeys |-> Absent],
                   ops |-> 0,
                   last |-> NoOp]

NoInput == [kind |-> "none"]
NoOutput == [step |-> "none", out |-> <<>>, exc |-> NoExc, errs |-> 0]

VARIABLES calls, tasks, current_state, current_tasks, result_cache, disk_cache,
          metrics, detailed, now, pattern_cache,
          workers, semaphore, max_concurrent, results,
          input, output, cleaner, nav, limiter, collector

orchVars == <<calls, tasks, current_state, current_tasks, result_cache, disk_cache,
              metrics, detailed, now>>
batchVars == <<workers, semaphore, max_concurrent, results>>
stageVars == <<input, output>>
vars == <<orchVars, pattern_cache, batchVars, stageVars, cleaner, nav, limiter, collector>>

\* ResultCache.is_valid: datetime.now() - self.timestamp < self.ttl
IsValid(ts, t) == t - ts < TTL

\* a cache file exactly 24 hours old taken as fresh
DiskFreshInclusive(ts, t) == ts + TTL >= t

\* _check_cache, persistent branch: timestamp + timedelta(hours=24) > now
DiskFresh(ts, t) == ts + TTL > t

\* 2 ** attempt
Backoff(attempt) == BackoffBase ^ attempt

\* a retry bound one short
ShouldRetryOnce(attempt) == attempt < MaxRetryAttempt - 1

\* if attempt < 2
ShouldRetry(attempt) == attempt < MaxRetryAttempt

\* an acquire that also passes at value 0
SemAcquirableAtZero(value) == value >= 0

\* asyncio.Semaphore.acquire returns at once when the value is positive
SemAcquirable(value) == value > 0

\* _rate_limited_search: "finally: self.rate_limiter.release()".  RateLimiter
\* has no release, so the finally clause raises AttributeError in place of
\* whatever the try block returned or raised.
FinallyRelease(r) ==
    IF "release" \in RateLimiterMethods THEN r ELSE ExcResult("AttributeError")

\* the orchestrator after __init__, the cache directory left aside
Constructed ==
    /\ calls = [c \in Calls |-> IdleCall]
    /\ tasks = [t \in Calls \X Sources |-> NoTask]
    /\ current_state = NoState
    /\ current_tasks = {}
    /\ result_cache = [k \in CacheKeys |-> NoEntry]
    /\ metrics = [total_searches |-> 0, successful_searches |-> 0,
                  failed_searches |-> 0, total_results |-> 0,
                  cross_validated_results |-> 0]
    /\ detailed = [cache_hits |-> 0, cache_misses |-> 0, search_times |-> 0,
                   error_counts |-> [s \in Sources |-> 0]]
    /\ now = 0
    /\ pattern_cache = EmptyPatternCache

\* no process_batch is running
NoBatch ==
    /\ workers = [w \in Workers |-> NoWorker]
    /\ semaphore = 0
    /\ max_concurrent = 0
    /\ results = {}

\* no stage is being run on its own
NoStage ==
    /\ input = NoInput
    /\ output = NoOutput

\* cleanup() has not been called
NoCleanup == cleaner = IdleCleaner

\* no NavigationStateMachine has been made
NoNavigation == nav = NoMachine

\* no caller has used the rate limiter
NoLimiter == limiter = IdleLimiter

\* the collector was constructed on an empty directory and never used
NoCollector == collector = EmptyCollector

\* the cache directory holds no file, or the file an earlier run wrote for
\* Acme at time 0
Init ==
    /\ Constructed
    /\ NoCleanup
    /\ NoNavigation
    /\ NoLimiter
    /\ NoCollector
    /\ \E e \in {NoEntry,
                  CacheEntry(EnrichmentResult(<<StoredContact("acme.com")>>, NoExc), 0)} :
          disk_cache = [k \in CacheKeys |->
                          IF k = CacheKey("Acme", "acme.com") THEN e ELSE NoEntry]
    /\ NoBatch
    /\ NoStage

(***************************************************************************)
(* enrich_company.                                                         *)
(***************************************************************************)
KeyOf(c) == CacheKey(calls[c].company, DomainOf(calls[c].company))

\* lines 140-166 of enrich_company: count the miss, make the state, create
\* and track the two source tasks
Dispatch(c, company) ==
    /\ detailed' = [detailed EXCEPT !.cache_misses = @ + 1]
    /\ metrics' = [metrics EXCEPT !.total_searches = @ + 1]
    /\ current_state' = [NewState(company, c) EXCEPT !.stage = "searching"]
    /\ tasks' = [t \in Calls \X Sources |->
                   IF t[1] = c THEN [NoTask EXCEPT !.pc = "created"] ELSE tasks[t]]
    /\ current_tasks' = current_tasks \cup {<<c, s>> : s \in Sources}

\* the call returns the result of a cache entry
ReturnCached(c, entered, entry, how) ==
    /\ calls' = [calls EXCEPT ![c] =
                    [entered EXCEPT !.pc = "done", !.result = entry.result,
                                    !.how = how, !.age = now - entry.timestamp]]
    /\ detailed' = [detailed EXCEPT !.cache_hits = @ + 1]
    /\ UNCHANGED <<tasks, current_state, current_tasks, metrics>>

\* whether call c for company follows the call before it (see IdleCall)
Follows(c, company, force) ==
    /\ c > 1
    /\ calls[c - 1].pc = "done"
    /\ calls[c - 1].company = company
    /\ ~calls[c - 1].force
    /\ ~force
    /\ now < TTL

\* enrich_company(company, domain, force_refresh) up to its first suspension:
\* the memory cache, then the cache file if there is one, else the dispatch.
\* Calls are numbered in the order in which they are made.
EnterCall(c, company, force) ==
    /\ calls[c].pc = "idle"
    /\ c > 1 => calls[c - 1].pc # "idle"
    /\ c = 1 => company = "Acme"
    /\ LET key == CacheKey(company, DomainOf(company))
           entered == [IdleCall EXCEPT !.company = company, !.force = force,
                                       !.follows = Follows(c, company, force)]
       IN IF ~force /\ result_cache[key].present
                    /\ IsValid(result_cache[key].timestamp, now)
          THEN /\ ReturnCached(c, entered, result_cache[key], "memory")
               /\ UNCHANGED result_cache
          ELSE IF ~force /\ disk_cache[key].present
          THEN /\ calls' = [calls EXCEPT ![c] = [entered EXCEPT !.pc = "diskread"]]
               /\ result_cache' = [result_cache EXCEPT ![key] = NoEntry]
               /\ UNCHANGED <<tasks, current_state, current_tasks, metrics, detailed>>
          ELSE /\ calls' = [calls EXCEPT ![c] = [entered EXCEPT !.pc = "gather"]]
               /\ result_cache' = IF force THEN result_cache
                                  ELSE [result_cache EXCEPT ![key] = NoEntry]
               /\ Dispatch(c, company)
    /\ UNCHANGED <<disk_cache, now, pattern_cache, batchVars, stageVars, cleaner, nav, limiter, collector>>

\* _check_cache resumes with the cache file's text
DiskRead(c) ==
    /\ calls[c].pc = "diskread"
    /\ IF /\ disk_cache[KeyOf(c)].present
          /\ ~disk_cache[KeyOf(c)].corrupt
          /\ DiskFresh(disk_cache[KeyOf(c)].timestamp, now)
       THEN ReturnCached(c, calls[c], disk_cache[KeyOf(c)], "disk")
       ELSE /\ calls' = [calls EXCEPT ![c].pc = "gather",
                                      ![c].stale = disk_cache[KeyOf(c)].present
                                                   /\ ~disk_cache[KeyOf(c)].corrupt]
            /\ Dispatch(c, calls[c].company)
    /\ UNCHANGED <<result_cache, disk_cache, now, pattern_cache, batchVars, stageVars, cleaner, nav, limiter, collector>>

\* _rate_limited_search starts: acquire() grants at once (fewer grants than
\* the rate limit exist), then _retry_failed_search calls the agent.  The
\* event loop starts the tasks of a call in the order of their creation.
TaskStart(c, s) ==
    /\ tasks[c, s].pc = "created"
    /\ s = "rocketreach" => tasks[c, "apollo"].pc # "created"
    /\ tasks' = [tasks EXCEPT ![c, s].pc = "searching", ![c, s].invocations = @ + 1]
    /\ UNCHANGED <<calls, current_state, current_tasks, result_cache, disk_cache,
                   metrics, detailed, now, pattern_cache, batchVars, stageVars, cleaner, nav, limiter, collector>>

\* the agent's search returns a list
AgentReturn(c, s, lst) ==
    /\ tasks[c, s].pc = "searching"
    /\ tasks' = [tasks EXCEPT ![c, s].pc = "done",
                              ![c, s].returned = ListResult(lst),
                              ![c, s].result = FinallyRelease(ListResult(lst))]
    /\ UNCHANGED <<calls, current_state, current_tasks, result_cache, disk_cache,
                   metrics, detailed, now, pattern_cache, batchVars, stageVars, cleaner, nav, limiter, collector>>

RECURSIVE SumFails(_)
SumFails(c) ==
    IF c > NCalls THEN 0
    ELSE tasks[c, "apollo"].fails + tasks[c, "rocketreach"].fails + SumFails(c + 1)

\* number of times the agents have raised so far
TotalFails == SumFails(1)

\* the except branch of _retry_failed_search
Raised(c, s) ==
    /\ current_state' = IF current_state.present
                        THEN [current_state EXCEPT !.retry_counts[s] = @ + 1]
                        ELSE current_state
    /\ detailed' = [detailed EXCEPT !.error_counts[s] = @ + 1]
    /\ tasks' = [tasks EXCEPT ![c, s] =
          IF ShouldRetry(@.attempt)
          THEN [@ EXCEPT !.pc = "sleeping", !.fails = @ + 1,
                         !.sleeps = Append(@, Backoff(tasks[c, s].attempt))]
          ELSE [@ EXCEPT !.pc = "done", !.fails = @ + 1,
                         !.result = FinallyRelease(ExcResult("OrchestrationError"))]]
    /\ UNCHANGED <<calls, current_tasks, result_cache, disk_cache, metrics, now,
                   pattern_cache, batchVars, stageVars, cleaner, nav, limiter, collector>>

\* the agent's search raises
AgentRaise(c, s) ==
    /\ tasks[c, s].pc = "searching"
    /\ s \in FaultySources
    /\ TotalFails < MaxFaults
    /\ Raised(c, s)

\* asyncio.sleep(2 ** attempt) is over: the recursive call with attempt + 1.
\* The sleeps are seconds and are recorded in sleeps; the clock now, which
\* only the cache reads, moves by Tick.
Wake(c, s) ==
    /\ tasks[c, s].pc = "sleeping"
    /\ tasks' = [tasks EXCEPT ![c, s].pc = "searching", ![c, s].attempt = @ + 1,
                              ![c, s].invocations = @ + 1]
    /\ UNCHANGED <<calls, current_state, current_tasks, result_cache, disk_cache,
                   metrics, detailed, now, pattern_cache, batchVars, stageVars, cleaner, nav, limiter, collector>>

RECURSIVE Repeat(_, _)
Repeat(x, n) == IF n = 0 THEN <<>> ELSE <<x>> \o Repeat(x, n - 1)

\* SearchResult(**result) for a contact dict: its keys (name, sources, ...)
\* are not fields of SearchResult, so the constructor raises TypeError
StoreExc(validated) == IF validated = <<>> THEN NoExc ELSE "TypeError"

\* _cache_result: the entries it leaves in memory and on disk.  json.dumps
\* raises on the 'sources' set of a contact after the file was opened for
\* writing, which leaves an empty file.
MemoryWrite(result, t) == CacheEntry(result, t)
DiskWrite(result, t) ==
    IF result.contacts = <<>> THEN CacheEntry(result, t)
    ELSE [CacheEntry(result, t) EXCEPT !.corrupt = TRUE]

\* an except branch that drops the error text
HandlerResultNoDetails(exc) == EnrichmentResult(<<>>, NoExc)

\* the except branch of enrich_company: the state it leaves and the result
HandlerState(cs, exc) ==
    IF cs.present
    THEN [cs EXCEPT !.status = "failed", !.errors = Append(@, exc)]
    ELSE cs
HandlerResult(exc) == EnrichmentResult(<<>>, exc)

\* what the tail of enrich_company leaves when nothing changes; threw tells
\* whether a step threw into the except branch of enrich_company
SameTail ==
    [cs |-> current_state, metrics |-> metrics, detailed |-> detailed,
     rcache |-> result_cache, dcache |-> disk_cache,
     pcache |-> pattern_cache, result |-> NoEnrichment, threw |-> TRUE]

\* the state record after the merging and validating stages
StateAfterStages(cs, m, x) ==
    [cs EXCEPT !.stage = "storing",
               !.errors = (IF m.exc = NoExc THEN @ ELSE Append(@, "Merge failure"))
                          \o Repeat("Validation error", x.errs)]

IsCrossValidated(r) == r.cross_validated = "true"

\* metrics after _cross_validate_results
MetricsAfterValidate(met, x) ==
    [met EXCEPT !.cross_validated_results = @ + Len(SelectSeq(x.out, IsCrossValidated))]

\* a metrics update that counts no failed search
MetricsAfterStoreNoFail(met, x) ==
    [met EXCEPT !.successful_searches = IF x.out # <<>> THEN @ + 1 ELSE @,
                !.total_results = @ + Len(x.out)]

\* "Update metrics" (lines 208-216)
MetricsAfterStore(met, x) ==
    [met EXCEPT !.successful_searches = IF x.out # <<>> THEN @ + 1 ELSE @,
                !.failed_searches = IF x.out = <<>> THEN @ + 1 ELSE @,
                !.total_results = @ + Len(x.out)]

\* enrich_company from the storing stage to its return (lines 201-251);
\* m is what _merge_results gave and x what _cross_validate_results gave
TailAfterValidate(c, m, x) ==
    IF StoreExc(x.out) # NoExc
    THEN [SameTail EXCEPT
            !.cs = HandlerState(StateAfterStages(current_state, m, x), StoreExc(x.out)),
            !.metrics = MetricsAfterValidate(metrics, x),
            !.pcache = x.pcache,
            !.result = HandlerResult(StoreExc(x.out))]
    ELSE IF LookupMethod("_get_source_metrics") # NoExc
    THEN [SameTail EXCEPT
            !.cs = HandlerState(StateAfterStages(current_state, m, x),
                                LookupMethod("_get_source_metrics")),
            !.metrics = MetricsAfterStore(MetricsAfterValidate(metrics, x), x),
            !.detailed = [detailed EXCEPT !.search_times = @ + 1],
            !.pcache = x.pcache,
            !.result = HandlerResult(LookupMethod("_get_source_metrics"))]
    ELSE [cs |-> [StateAfterStages(current_state, m, x) EXCEPT
                    !.stage = "complete", !.status = "success"],
          metrics |-> MetricsAfterStore(MetricsAfterValidate(metrics, x), x),
          detailed |-> [detailed EXCEPT !.search_times = @ + 1],
          rcache |-> [result_cache EXCEPT
                        ![KeyOf(c)] = MemoryWrite(EnrichmentResult(x.out, NoExc), now)],
          dcache |-> [disk_cache EXCEPT
                        ![KeyOf(c)] = DiskWrite(EnrichmentResult(x.out, NoExc), now)],
          pcache |-> x.pcache,
          result |-> EnrichmentResult(x.out, NoExc),
          threw |-> FALSE]

\* lines 191-199: cross-validation is enabled (cross_validation_required)
TailAfterMerge(c, m) ==
    TailAfterValidate(c, m,
        CrossValidate(m.out, DomainOf(calls[c].company), m.pcache))

\* enrich_company from the return of gather to its return (lines 170-251).
\* With current_state None, "self.current_state.stage = 'merging'" raises.
EnrichTail(c) ==
    IF ~current_state.present
    THEN [SameTail EXCEPT !.result = HandlerResult("AttributeError")]
    ELSE TailAfterMerge(c,
             MergeResults(tasks[c, "apollo"].result, tasks[c, "rocketreach"].result,
                          DomainOf(calls[c].company), pattern_cache))

\* the call returns with what the tail t of enrich_company left; the finally
\* clause drops the finished tasks
Finish(c, t) ==
    /\ calls' = [calls EXCEPT ![c].pc = "done", ![c].result = t.result,
                              ![c].how = IF t.threw THEN "error" ELSE "fresh"]
    /\ current_state' = t.cs
    /\ metrics' = t.metrics
    /\ detailed' = t.detailed
    /\ result_cache' = t.rcache
    /\ disk_cache' = t.dcache
    /\ pattern_cache' = t.pcache
    /\ current_tasks' = {k \in current_tasks : tasks[k].pc # "done"}
    /\ UNCHANGED <<tasks, now, batchVars, stageVars, cleaner, nav, limiter, collector>>

\* gather returns once both source tasks are done; the call runs to its end
GatherDone(c) ==
    /\ calls[c].pc = "gather"
    /\ \A s \in Sources : tasks[c, s].pc = "done"
    /\ Finish(c, EnrichTail(c))

\* time passes: by the TTL less a second, or by a second once that much
\* time has passed, up to MaxSmall seconds beyond the TTL
Tick(d) ==
    /\ now + d <= TTL + MaxSmall
    /\ d = 1 => now >= TTL - 1
    /\ now' = now + d
    /\ UNCHANGED <<calls, tasks, current_state, current_tasks, result_cache,
                   disk_cache, metrics, detailed, pattern_cache, batchVars, stageVars, cleaner, nav, limiter, collector>>

Next ==
    \/ \E c \in Calls, company \in Companies, force \in BOOLEAN :
          EnterCall(c, company, force)
    \/ \E c \in Calls : DiskRead(c)
    \/ \E c \in Calls, s \in Sources : TaskStart(c, s)
    \/ \E c \in Calls, s \in Sources : \E lst \in AgentLists(calls[c].company) :
          AgentReturn(c, s, lst)
    \/ \E c \in Calls, s \in Sources : AgentRaise(c, s)
    \/ \E c \in Calls, s \in Sources : Wake(c, s)
    \/ \E c \in Calls : GatherDone(c)
    \/ \E d \in {1, TTL - 1} : Tick(d)

Spec == Init /\ [][Next]_vars

(***************************************************************************)
(* process_batch(companies, max_concurrent).  The list of companies and    *)
(* max_concurrent are the inputs; a worker is "created", then "running"    *)
(* inside "async with semaphore" until its enrich_company call returns.    *)
(***************************************************************************)
BatchInit ==
    /\ Constructed
    /\ NoCleanup
    /\ NoNavigation
    /\ NoLimiter
    /\ NoCollector
    /\ disk_cache = [k \in CacheKeys |-> NoEntry]
    /\ NoStage
    /\ workers \in [Workers -> [pc : {"created"}, company : Companies]]
    /\ max_concurrent \in 1..MaxK
    /\ semaphore = max_concurrent
    /\ results = {}

\* "async with semaphore" is entered and enrich_company is called
WorkerEnter(w) ==
    /\ workers[w].pc = "created"
    /\ SemAcquirable(semaphore)
    /\ semaphore' = semaphore - 1
    /\ workers' = [workers EXCEPT ![w].pc = "running"]
    /\ UNCHANGED <<orchVars, pattern_cache, max_concurrent, results, stageVars, cleaner, nav, limiter, collector>>

\* enrich_company returns; results[company_info['name']] = result, and
\* leaving the with block releases the semaphore
WorkerResolve(w) ==
    /\ workers[w].pc = "running"
    /\ results' = results \cup {workers[w].company}
    /\ semaphore' = semaphore + 1
    /\ workers' = [workers EXCEPT ![w].pc = "done"]
    /\ UNCHANGED <<orchVars, pattern_cache, max_concurrent, stageVars, cleaner, nav, limiter, collector>>

BatchNext ==
    \/ \E w \in Workers : WorkerEnter(w)
    \/ \E w \in Workers : WorkerResolve(w)

BatchSpec == BatchInit /\ [][BatchNext]_vars

(***************************************************************************)
(* _merge_results followed by _cross_validate_results, on the lists two    *)
(* sources returned (lines 185-197 of enrich_company).                     *)
(***************************************************************************)
PipelineInit ==
    /\ Constructed
    /\ NoCleanup
    /\ NoNavigation
    /\ NoLimiter
    /\ NoCollector
    /\ disk_cache = [k \in CacheKeys |-> NoEntry]
    /\ NoBatch
    /\ \E ar \in ListsUpTo(Candidates("acme.com"), MaxCands),
          rr \in ListsUpTo(Candidates("acme.com"), MaxCands) :
          input = [kind |-> "lists", ar |-> ListResult(ar), rr |-> ListResult(rr),
                   domain |-> "acme.com"]
    /\ output = NoOutput

\* what a stage leaves: its list, the exception it swallowed, the pattern cache
StageDone(step, out, exc, errs, pcache) ==
    /\ output' = [step |-> step, out |-> out, exc |-> exc, errs |-> errs]
    /\ pattern_cache' = pcache
    /\ UNCHANGED <<orchVars, batchVars, input, cleaner, nav, limiter, collector>>

\* m is what _merge_results gave
Merged(m) == StageDone("merged", m.out, m.exc, 0, m.pcache)

\* x is what _cross_validate_results gave
Validated(x) == StageDone("validated", x.out, NoExc, x.errs, x.pcache)

RunMerge ==
    /\ input.kind = "lists"
    /\ output.step = "none"
    /\ Merged(MergeResults(input.ar, input.rr, input.domain, pattern_cache))

RunCrossValidate ==
    /\ output.step = "merged"
    /\ Validated(CrossValidate(output.out, input.domain, pattern_cache))

PipelineNext == RunMerge \/ RunCrossValidate

PipelineSpec == PipelineInit /\ [][PipelineNext]_vars

(***************************************************************************)
(* _cross_validate_results on a list of merged contacts.                   *)
(***************************************************************************)
CrossInit ==
    /\ Constructed
    /\ NoCleanup
    /\ NoNavigation
    /\ NoLimiter
    /\ NoCollector
    /\ disk_cache = [k \in CacheKeys |-> NoEntry]
    /\ NoBatch
    /\ \E rs \in ListsUpTo(MergedContacts("acme.com"), MaxMerged) :
          input = [kind |-> "merged", results |-> rs, domain |-> "acme.com"]
    /\ output = NoOutput

RunCross ==
    /\ input.kind = "merged"
    /\ output.step = "none"
    /\ Validated(CrossValidate(input.results, input.domain, pattern_cache))

CrossNext == RunCross

CrossSpec == CrossInit /\ [][CrossNext]_vars

(***************************************************************************)
(* Properties.                                                             *)
(***************************************************************************)
\* C1: enrich_company never raises to its caller: every call that has ended
\* returned an EnrichmentResult, and when an internal step threw, the result
\* has empty contacts and error_details set.
C1_NeverRaises ==
    \A c \in Calls :
       calls[c].pc = "done" =>
          /\ calls[c].result.made
          /\ calls[c].how = "error" =>
                /\ calls[c].result.contacts = <<>>
                /\ calls[c].result.error_details # NoExc

C1_Witness ==
    \E c \in Calls : calls[c].pc = "done" /\ calls[c].how = "error"

\* source s of call c exhausted its retries and the other source o returned
\* candidates
OneExhausted(c, s, o) ==
    /\ s # o
    /\ calls[c].pc = "done"
    /\ calls[c].how \in {"fresh", "error"}
    /\ tasks[c, s].pc = "done"
    /\ tasks[c, s].returned.kind = "none"
    /\ tasks[c, o].returned.kind = "list"
    /\ tasks[c, o].returned.val # <<>>

\* the contacts that merging and validating the candidates of o alone give
OtherAlone(c, o) ==
    CrossValidate(
        MergeResults(IF o = "apollo" THEN tasks[c, o].returned ELSE ListResult(<<>>),
                     IF o = "rocketreach" THEN tasks[c, o].returned ELSE ListResult(<<>>),
                     DomainOf(calls[c].company), EmptyPatternCache).out,
        DomainOf(calls[c].company), EmptyPatternCache).out

\* C2: when one source exhausts its retries and the other returns candidates,
\* the call returns the contacts obtained from the other source's candidates
\* alone, with error_details unset, and the failing source only adds to its
\* own error counter.
C2_PartialSuccess ==
    \A c \in Calls, s \in Sources, o \in Sources :
       OneExhausted(c, s, o) =>
          /\ calls[c].result.error_details = NoExc
          /\ calls[c].result.contacts = OtherAlone(c, o)
          /\ detailed.error_counts[o] = 0

C4_CacheHit ==
    \A c \in Calls :
       calls[c].follows =>
          /\ \A s \in Sources : tasks[c, s].invocations = 0
          /\ calls[c].pc = "done" =>
                calls[c].result.contacts = calls[c - 1].result.contacts

\* C5: a call without force_refresh never returns a cached result whose age
\* is 24 hours or more; having found such an entry it dispatches the sources.
C5_NoStaleCache ==
    \A c \in Calls :
       /\ calls[c].how \in {"memory", "disk"} =>
             /\ ~calls[c].force
             /\ calls[c].age >= 0
             /\ calls[c].age < TTL
       /\ calls[c].stale =>
             /\ calls[c].pc \in {"gather", "done"}
             /\ calls[c].how \in {"none", "fresh", "error"}
             /\ \A s \in Sources : tasks[c, s].pc # "none"

C5_Witness ==
    /\ calls[1].how = "disk"
    /\ calls[1].age = TTL - 1
    /\ calls[2].stale
    /\ calls[2].pc = "gather"
    /\ now = TTL

\* C6: no contact that _cross_validate_results returns has a confidence
\* below min_confidence_threshold.
C6_Threshold ==
    output.step = "validated" =>
       \A i \in 1..Len(output.out) : output.out[i].conf >= min_confidence_threshold

C6_Witness ==
    /\ output.step = "validated"
    /\ Len(input.results) = 2
    /\ Len(output.out) = 1
    /\ input.results[2].conf < min_confidence_threshold
    /\ output.out[1].conf >= min_confidence_threshold

\* the normalized (company, person) identity key of a candidate of the one
\* company searched
IdentityKey(cand) == IF cand.name = "John" THEN "acme_john" ELSE "acme_john_doe"

\* base confidence times the weight of the source
SourceWeighted(cand, s) ==
    ((IF cand.conf = NoConf THEN DefaultBaseConfidence ELSE cand.conf)
       * source_weights[s]) \div Scale

\* one candidate from each source, both passing _validate_contact_info in
\* the order of the merge, with the same identity key
SameIdentityPair ==
    /\ input.kind = "lists"
    /\ Len(input.ar.val) = 1
    /\ Len(input.rr.val) = 1
    /\ IdentityKey(input.ar.val[1]) = IdentityKey(input.rr.val[1])
    /\ ValidateContactInfo(input.ar.val[1], input.domain, EmptyPatternCache).ok
    /\ ValidateContactInfo(input.rr.val[1], input.domain,
          ValidateContactInfo(input.ar.val[1], input.domain, EmptyPatternCache).pcache).ok

\* C7: two valid candidates of different sources with the same identity key
\* merge into exactly one contact whose sources are both sources and whose
\* confidence is at least the larger source-weighted confidence.
C7_IdentityMerge ==
    (output.step = "merged" /\ SameIdentityPair) =>
       /\ Len(output.out) = 1
       /\ output.out[1].sources = Sources
       /\ output.out[1].conf >= SourceWeighted(input.ar.val[1], "apollo")
       /\ output.out[1].conf >= SourceWeighted(input.rr.val[1], "rocketreach")

\* Scenario A: John Doe, CFO and john doe, Chief Financial Officer, both
\* john@acme.com
ScenarioA ==
    /\ input.kind = "lists"
    /\ Len(input.ar.val) = 1
    /\ Len(input.rr.val) = 1
    /\ input.ar.val[1].name = "John Doe"
    /\ input.ar.val[1].title = "CFO"
    /\ input.rr.val[1].name = "john doe"
    /\ input.rr.val[1].title = "Chief Financial Officer"
    /\ input.ar.val[1].email = Addr(Local_john, "acme.com")
    /\ input.rr.val[1].email = Addr(Local_john, "acme.com")

\* C8: every returned contact carries cross_validated = True exactly when it
\* has more than one source, and Scenario A yields one contact with both
\* sources and cross_validated = True.
C8_CrossValidated ==
    output.step = "validated" =>
       /\ \A i \in 1..Len(output.out) :
             (output.out[i].cross_validated = "true")
                <=> (Cardinality(output.out[i].sources) > 1)
       /\ ScenarioA =>
             /\ Len(output.out) = 1
             /\ output.out[1].sources = Sources
             /\ output.out[1].cross_validated = "true"

\* C9: at most one dispatch is in flight for a cache key at any time.
C9_OneAttemptPerKey ==
    \A c1 \in Calls, c2 \in Calls :
       (c1 # c2 /\ calls[c1].pc = "gather" /\ calls[c2].pc = "gather")
          => KeyOf(c1) # KeyOf(c2)

Unresolved == {w \in Workers : workers[w].pc = "running"}

\* C10: process_batch with max_concurrent = k never has more than k
\* enrich_company calls unresolved at the same time.
C10_BatchBound == Cardinality(Unresolved) <= max_concurrent

C10_Witness ==
    /\ max_concurrent >= 2
    /\ Cardinality(Unresolved) = max_concurrent
    /\ \E w \in Workers : workers[w].pc = "created"

\* C11: each in-flight enrich_company call has its own EnrichmentState: while
\* a call waits for its source tasks, the state the orchestrator holds is the
\* one that call made, and no other call has replaced or modified it.
C11_OwnState ==
    \A c \in Calls :
       calls[c].pc = "gather" =>
          /\ current_state.present
          /\ current_state.owner = c

\* the calls that returned a result with error_details set
ErrorCalls ==
    {c \in Calls : /\ calls[c].pc = "done"
                   /\ calls[c].how = "error"
                   /\ calls[c].result.error_details # NoExc}

\* C12: every enrich_company call that returns a result with error_details
\* set has incremented failed_searches by one: the metric counts exactly the
\* calls that returned such a result.
C12_FailedCounted == metrics.failed_searches = Cardinality(ErrorCalls)

C12_Witness ==
    /\ Cardinality(ErrorCalls) = NCalls
    /\ metrics.failed_searches = NCalls
    /\ metrics.successful_searches = 0

(***************************************************************************)
(* cleanup() of the orchestrator, called while one enrich_company call may *)
(* be in flight.                                                           *)
(***************************************************************************)
ResultCollectorMethods ==
    {"add_result", "add_batch_results", "get_company_results", "get_result",
     "update_result", "remove_result", "_generate_result_key", "_should_update",
     "_save_result", "_load_cached_results", "get_stats", "_get_storage_size"}

\* task.cancel() and the step of the task that follows: a task that has not
\* started ends cancelled; in a task that has, CancelledError is thrown at
\* its await, passes "except Exception" of _retry_failed_search and reaches
\* the finally clause of _rate_limited_search
Cancelled(task) ==
    IF task.pc = "created"
    THEN [task EXCEPT !.pc = "done", !.result = ExcResult("CancelledError")]
    ELSE [task EXCEPT !.pc = "done",
                      !.result = FinallyRelease(ExcResult("CancelledError"))]

\* cleanup() is called: "for task in self.current_tasks" takes the set
CleanupStart ==
    /\ cleaner.pc = "idle"
    /\ cleaner' = [cleaner EXCEPT !.pc = "loop", !.iter = current_tasks]
    /\ UNCHANGED <<orchVars, pattern_cache, batchVars, stageVars, nav, limiter, collector>>

\* one turn of the loop: a task that is done is passed over, any other is
\* cancelled and awaited
CleanupVisit(t) ==
    /\ cleaner.pc = "loop"
    /\ t \in cleaner.iter \ cleaner.visited
    /\ IF tasks[t].pc = "done"
       THEN /\ cleaner' = [cleaner EXCEPT !.visited = @ \cup {t}]
            /\ UNCHANGED tasks
       ELSE /\ cleaner' = [cleaner EXCEPT !.visited = @ \cup {t},
                                          !.pc = "awaiting", !.target = t]
            /\ tasks' = [tasks EXCEPT ![t] = Cancelled(@)]
    /\ UNCHANGED <<calls, current_state, current_tasks, result_cache, disk_cache,
                   metrics, detailed, now, pattern_cache, batchVars, stageVars, nav, limiter, collector>>

\* "await task" resumes: CancelledError is passed, any other exception ends
\* cleanup() in its except branch
CleanupResume ==
    /\ cleaner.pc = "awaiting"
    /\ cleaner' =
          IF tasks[cleaner.target].result.exc = "CancelledError"
          THEN [cleaner EXCEPT !.pc = "loop", !.target = NoTarget]
          ELSE [cleaner EXCEPT !.pc = "returned", !.target = NoTarget,
                               !.failed = tasks[cleaner.target].result.exc]
    /\ UNCHANGED <<orchVars, pattern_cache, batchVars, stageVars, nav, limiter, collector>>

\* after the loop: the agents' cleanup (which swallow their exceptions), then
\* self.result_collector.cleanup_cache(), and the clearing of the caches,
\* the state and the task set when that call does not raise
CleanupTail ==
    /\ cleaner.pc = "loop"
    /\ cleaner.visited = cleaner.iter
    /\ IF "cleanup_cache" \in ResultCollectorMethods
       THEN /\ cleaner' = [cleaner EXCEPT !.pc = "returned"]
            /\ result_cache' = [k \in CacheKeys |-> NoEntry]
            /\ disk_cache' = [k \in CacheKeys |->
                                 IF disk_cache[k].present
                                    /\ disk_cache[k].timestamp < now - TTL
                                 THEN NoEntry ELSE disk_cache[k]]
            /\ current_state' = NoState
            /\ current_tasks' = {}
       ELSE /\ cleaner' = [cleaner EXCEPT !.pc = "returned",
                                          !.failed = "AttributeError"]
            /\ UNCHANGED <<result_cache, disk_cache, current_state, current_tasks>>
    /\ UNCHANGED <<calls, tasks, metrics, detailed, now, pattern_cache,
                   batchVars, stageVars, nav, limiter, collector>>

CleanupInit ==
    /\ Constructed
    /\ disk_cache = [k \in CacheKeys |-> NoEntry]
    /\ NoBatch
    /\ NoStage
    /\ NoCleanup
    /\ NoNavigation
    /\ NoLimiter
    /\ NoCollector

\* one enrich_company call, and cleanup() called at any moment
CleanupNext ==
    \/ \E company \in Companies, force \in BOOLEAN : EnterCall(1, company, force)
    \/ \E s \in Sources : TaskStart(1, s)
    \/ \E s \in Sources : \E lst \in AgentLists(calls[1].company) : AgentReturn(1, s, lst)
    \/ \E s \in Sources : AgentRaise(1, s)
    \/ \E s \in Sources : Wake(1, s)
    \/ GatherDone(1)
    \/ CleanupStart
    \/ \E t \in Calls \X Sources : CleanupVisit(t)
    \/ CleanupResume
    \/ CleanupTail

CleanupSpec == CleanupInit /\ [][CleanupNext]_vars

\* C13: when cleanup() returns, every source task created by enrich_company
\* has finished or has been cancelled and awaited, and current_tasks is empty.
C13_CleanupComplete ==
    cleaner.pc = "returned" =>
       /\ \A t \in Calls \X Sources : tasks[t].pc \in {"none", "done"}
       /\ current_tasks = {}

HandleInitial(ctx, ev) ==
    [ctx EXCEPT !.current_state = IF ev.success THEN "SEARCHING" ELSE "ERROR"]

\* a searching handler that gives up one attempt later
HandleSearchingLate(ctx, ev) ==
    IF ev.person_found # None
    THEN [ctx EXCEPT !.found_person = ev.person_found,
                     !.current_state = "PERSON_FOUND"]
    ELSE IF ctx.attempts > max_attempts
    THEN [ctx EXCEPT !.current_state = "ERROR"]
    ELSE [ctx EXCEPT !.attempts = @ + 1]

\* _handle_searching
HandleSearching(ctx, ev) ==
    IF ev.person_found # None
    THEN [ctx EXCEPT !.found_person = ev.person_found,
                     !.current_state = "PERSON_FOUND"]
    ELSE IF ctx.attempts >= max_attempts
    THEN [ctx EXCEPT !.current_state = "ERROR"]
    ELSE [ctx EXCEPT !.attempts = @ + 1]

\* an email handler that completes whatever the validation said
HandleEmailFoundComplete(ctx, ev) ==
    [ctx EXCEPT !.found_email = ev.email_found, !.current_state = "COMPLETE"]

\* _handle_email_found: "validation_success is False" holds for False only
HandleEmailFound(ctx, ev) ==
    [ctx EXCEPT !.found_email = ev.email_found,
                !.current_state = IF ev.validation_success = "False"
                                  THEN "RETRYING" ELSE "COMPLETE"]

\* a person-found handler that passes through EMAIL_FOUND and stays there
\* when the validation failed
HandlePersonFoundStaged(ctx, ev) ==
    IF ev.email_found # None
    THEN [ctx EXCEPT !.found_email = ev.email_found,
                     !.current_state = IF ev.validation_success = "False"
                                       THEN "EMAIL_FOUND" ELSE "COMPLETE"]
    ELSE IF ctx.attempts >= max_attempts
    THEN [ctx EXCEPT !.current_state = "ERROR"]
    ELSE [ctx EXCEPT !.attempts = @ + 1]

\* _handle_person_found
HandlePersonFound(ctx, ev) ==
    IF ev.email_found # None
    THEN HandleEmailFound([ctx EXCEPT !.found_email = ev.email_found], ev)
    ELSE IF ctx.attempts >= max_attempts
    THEN [ctx EXCEPT !.current_state = "ERROR"]
    ELSE [ctx EXCEPT !.attempts = @ + 1]

\* _handle_validating
HandleValidating(ctx, ev) ==
    [ctx EXCEPT !.current_state = IF ev.validation_success = "True" THEN "COMPLETE"
                                  ELSE IF ev.retry_needed THEN "RETRYING"
                                  ELSE "ERROR"]

\* _handle_retrying
HandleRetrying(ctx, ev) ==
    [ctx EXCEPT !.attempts = 0,
                !.current_state = IF ev.reset THEN "INITIAL" ELSE "SEARCHING"]

\* an error handler that retries on every event
HandleErrorAlways(ctx, ev) ==
    [ctx EXCEPT !.current_state = "RETRYING", !.attempts = 0]

\* _handle_error
HandleError(ctx, ev) ==
    IF ev.retry
    THEN [ctx EXCEPT !.current_state = "RETRYING", !.attempts = 0]
    ELSE ctx

\* _handle_complete
HandleComplete(ctx, ev) == ctx

\* self.state_transitions.get(self.context.current_state), applied
Handler(ctx, ev) ==
    CASE ctx.current_state = "INITIAL" -> HandleInitial(ctx, ev)
      [] ctx.current_state = "SEARCHING" -> HandleSearching(ctx, ev)
      [] ctx.current_state = "PERSON_FOUND" -> HandlePersonFound(ctx, ev)
      [] ctx.current_state = "EMAIL_FOUND" -> HandleEmailFound(ctx, ev)
      [] ctx.current_state = "VALIDATING" -> HandleValidating(ctx, ev)
      [] ctx.current_state = "RETRYING" -> HandleRetrying(ctx, ev)
      [] ctx.current_state = "ERROR" -> HandleError(ctx, ev)
      [] ctx.current_state = "COMPLETE" -> HandleComplete(ctx, ev)

\* seconds since the context was made
Elapsed == nav.clock - nav.context.start_time

\* a timeout that spares a completed search
AfterTimeoutSparing(state) == IF state = "COMPLETE" THEN state ELSE "ERROR"

\* handle_timeout: self.context.current_state = NavigationState.ERROR
AfterTimeout(state) == "ERROR"

\* _monitor_timeout: elapsed > self.context.timeout_seconds
TimedOut(elapsed) == elapsed > timeout_seconds

\* _validate_current_state and _trigger_recovery
ValidateCurrentState(ctx) ==
    IF ctx.attempts >= max_attempts
    THEN [ctx EXCEPT !.current_state = "RETRYING", !.attempts = 0]
    ELSE ctx

\* the background tasks of the machine that have not ended
Running ==
    (IF nav.timeout_monitor THEN {"timeout_monitor"} ELSE {})
       \cup (IF nav.validation THEN {"validation"} ELSE {})

\* the context is in SEARCHING with its attempts used up
Exhausted(ctx) ==
    ctx.present /\ ctx.current_state = "SEARCHING" /\ ctx.attempts = max_attempts

Step(kind, ev, exc, ctx, read) ==
    [kind |-> kind, from |-> nav.context.current_state,
     before |-> nav.context.attempts, ev |-> ev, elapsed |-> Elapsed,
     exc |-> exc, ctx |-> ctx, read |-> read,
     running |-> Running, armed |-> nav.exhausted]

\* what the other variables do in a step of the machine
NavOnly == UNCHANGED <<orchVars, pattern_cache, batchVars, stageVars, cleaner, limiter, collector>>

\* initialize_search(company, role) up to the suspension of _save_state:
\* cleanup() cancels the monitor and the validation task of an earlier
\* search, then the context and the two tasks are made
InitializeSearch(company, role) ==
    /\ nav.pc = "idle"
    /\ nav.searches < MaxSearches
    /\ LET ctx == [NavigationContext("INITIAL", company, role, None, None, 0,
                                      nav.clock)
                      EXCEPT !.parallel_tasks = {"validation"}]
       IN nav' = [nav EXCEPT !.context = ctx,
                             !.exhausted = FALSE,
                             !.timeout_monitor = TRUE,
                             !.validation = TRUE,
                             !.monitor_save = NoSave,
                             !.pc = "saving",
                             !.save = [active |-> TRUE, by |-> "initialize_search",
                                       data |-> StateData(ctx)],
                             !.searches = @ + 1,
                             !.last = Step("initialize_search", NoEvent, NoExc, ctx, NoFile)]
    /\ NavOnly

\* transition(action_result) up to the suspension of _save_state: without a
\* context it raises NavigationError, else the handler of the current state
\* runs and state_data is built
Transition(ev) ==
    /\ nav.pc = "idle"
    /\ IF ~nav.context.present
       THEN nav' = [nav EXCEPT !.last = Step("transition", ev, "NavigationError",
                                             nav.context, NoFile)]
       ELSE nav' = [nav EXCEPT !.context = Handler(nav.context, ev),
                               !.exhausted = Exhausted(Handler(nav.context, ev)),
                               !.pc = "saving",
                               !.save = [active |-> TRUE, by |-> "transition",
                                         data |-> StateData(Handler(nav.context, ev))],
                               !.last = Step("transition", ev, NoExc,
                                             Handler(nav.context, ev), NoFile)]
    /\ NavOnly

\* the write of _save_state ends and its caller returns
SaveDone ==
    /\ nav.pc = "saving"
    /\ nav' = [nav EXCEPT !.file = [present |-> TRUE, by |-> nav.save.by,
                                    data |-> nav.save.data],
                          !.save = NoSave,
                          !.pc = "idle"]
    /\ NavOnly

\* one turn of the loop of _monitor_timeout
MonitorPoll ==
    /\ nav.timeout_monitor
    /\ ~nav.monitor_save.active
    /\ nav.context.present
    /\ IF TimedOut(Elapsed)
       THEN nav' = [nav EXCEPT
                      !.context.current_state = AfterTimeout(@),
                      !.monitor_save =
                          [active |-> TRUE, by |-> "handle_timeout",
                           data |-> StateData([nav.context EXCEPT
                                      !.current_state = AfterTimeout(@)])],
                      !.last = Step("poll", NoEvent, NoExc,
                                    [nav.context EXCEPT
                                       !.current_state = AfterTimeout(@)], NoFile)]
       ELSE nav' = [nav EXCEPT !.last = Step("poll", NoEvent, NoExc, nav.context, NoFile)]
    /\ NavOnly

\* the write of handle_timeout ends; the monitor goes to sleep
MonitorSaveDone ==
    /\ nav.monitor_save.active
    /\ nav' = [nav EXCEPT !.file = [present |-> TRUE, by |-> nav.monitor_save.by,
                                    data |-> nav.monitor_save.data],
                          !.monitor_save = NoSave]
    /\ NavOnly

\* one turn of the loop of _continuous_validation
ValidationTurn ==
    /\ nav.validation
    /\ nav.context.present
    /\ nav.context.current_state \notin {"ERROR", "COMPLETE"}
    /\ nav' = [nav EXCEPT !.context = ValidateCurrentState(@),
                          !.last = Step("validation", NoEvent, NoExc,
                                        ValidateCurrentState(nav.context), NoFile)]
    /\ NavOnly

\* load_state(): without a file it returns None; NavigationState[...] is
\* evaluated before the context is made, so when it raises the context stays
LoadState ==
    /\ nav.pc = "idle"
    /\ IF ~nav.file.present
       THEN nav' = [nav EXCEPT !.last = Step("load_state", NoEvent, NoExc,
                                             nav.context, nav.file)]
       ELSE IF StateByName(nav.file.data.current_state).exc # NoExc
       THEN nav' = [nav EXCEPT !.last =
                       Step("load_state", NoEvent,
                            StateByName(nav.file.data.current_state).exc,
                            nav.context, nav.file)]
       ELSE LET ctx == NavigationContext(
                          StateByName(nav.file.data.current_state).member,
                          nav.file.data.target_company, nav.file.data.target_role,
                          nav.file.data.found_person, nav.file.data.found_email,
                          nav.file.data.attempts, nav.clock)
            IN nav' = [nav EXCEPT !.context = ctx,
                                  !.exhausted = Exhausted(ctx),
                                  !.last = Step("load_state", NoEvent, NoExc,
                                                ctx, nav.file)]
    /\ NavOnly

\* a cleanup that leaves the tracked tasks running
AfterCancelNone(running, tracked) == running

\* task.cancel() and "await task" for the tasks that cleanup() reaches:
\* whether a task still runs afterwards
AfterCancel(running, tracked) == running /\ ~tracked

\* cleanup() up to "await self.timeout_monitor": the monitor, if the machine
\* holds one, is cancelled, and with it the write of handle_timeout
CleanupMonitor ==
    /\ nav.pc = "idle"
    /\ nav' = [nav EXCEPT
                  !.pc = "cleanup",
                  !.timeout_monitor = AfterCancel(@, TRUE),
                  !.monitor_save = NoSave,
                  !.last = Step("cleanup_monitor", NoEvent, NoExc, nav.context, NoFile)]
    /\ NavOnly

\* the rest of cleanup(): the tasks in self.context.parallel_tasks are
\* cancelled and awaited, and cleanup() returns
CleanupTasks ==
    /\ nav.pc = "cleanup"
    /\ nav' = [nav EXCEPT
                  !.pc = "idle",
                  !.validation =
                      AfterCancel(@, nav.context.present
                                     /\ "validation" \in nav.context.parallel_tasks),
                  !.last = [Step("cleanup", NoEvent, NoExc, nav.context, NoFile)
                               EXCEPT !.running = nav.last.running]]
    /\ NavOnly

\* time passes: by timeout_seconds, or by a second once that much time has
\* passed, up to MaxSmall seconds beyond timeout_seconds
NavTick(d) ==
    /\ nav.clock + d <= timeout_seconds + MaxSmall
    /\ d = 1 => nav.clock >= timeout_seconds
    /\ nav' = [nav EXCEPT !.clock = @ + d]
    /\ NavOnly

NavInit ==
    /\ Constructed
    /\ disk_cache = [k \in CacheKeys |-> NoEntry]
    /\ NoBatch
    /\ NoStage
    /\ NoCleanup
    /\ NoNavigation
    /\ NoLimiter
    /\ NoCollector

NavNext ==
    \/ InitializeSearch("TestCo", "CEO")
    \/ \E ev \in Events : Transition(ev)
    \/ SaveDone
    \/ MonitorPoll
    \/ MonitorSaveDone
    \/ ValidationTurn
    \/ LoadState
    \/ CleanupMonitor
    \/ CleanupTasks
    \/ \E d \in {1, timeout_seconds} : NavTick(d)

NavSpec == NavInit /\ [][NavNext]_vars

(***************************************************************************)
(* Properties of the navigation state machine.                             *)
(***************************************************************************)
\* the last step was a transition whose handler ran in state s
TransitionFrom(s) ==
    /\ nav.last.kind = "transition"
    /\ nav.last.exc = NoExc
    /\ nav.last.from = s

\* C15: transition(event) in COMPLETE leaves current_state at COMPLETE for
\* every event; in ERROR an event with retry true moves it to RETRYING and
\* every other event leaves it at ERROR.
C15_Terminality ==
    /\ TransitionFrom("COMPLETE") => nav.last.ctx.current_state = "COMPLETE"
    /\ TransitionFrom("ERROR") =>
          nav.last.ctx.current_state = IF nav.last.ev.retry THEN "RETRYING" ELSE "ERROR"

C15_Witness ==
    /\ TransitionFrom("ERROR")
    /\ nav.last.ev.retry
    /\ nav.last.ctx.current_state = "RETRYING"
    /\ nav.file.by = "transition"
    /\ nav.file.data.current_state = "retrying"

\* C16: COMPLETE is a sink: once the current_state of a context is COMPLETE,
\* no step of transition, of the timeout monitor or of the validation loop
\* changes it.
C16_CompleteIsSink ==
    [][(/\ nav.context.present
        /\ nav.context.current_state = "COMPLETE"
        /\ nav'.searches = nav.searches)
          => nav'.context.current_state = "COMPLETE"]_vars

\* the last step was a poll of the monitor made more than timeout_seconds
\* after start_time
LatePoll ==
    /\ nav.last.kind = "poll"
    /\ nav.last.elapsed > timeout_seconds

\* C17: once now - start_time exceeds timeout_seconds, a poll of the timeout
\* monitor sets current_state to ERROR, whatever the state was.
C17_TimeoutForcesError ==
    LatePoll => nav.last.ctx.current_state = "ERROR"

C17_Witness ==
    /\ LatePoll
    /\ nav.last.from = "COMPLETE"
    /\ nav.last.ctx.current_state = "ERROR"
    /\ nav.context.current_state = "ERROR"

\* C18: from PERSON_FOUND an event carrying email_found records it as
\* found_email and moves to RETRYING when validation_success is false and to
\* COMPLETE otherwise; an event without email_found moves to ERROR when
\* attempts >= max_attempts and otherwise adds one to attempts and stays in
\* PERSON_FOUND.
C18_PersonFound ==
    TransitionFrom("PERSON_FOUND") =>
       IF nav.last.ev.email_found # None
       THEN /\ nav.last.ctx.found_email = nav.last.ev.email_found
            /\ nav.last.ctx.current_state =
                  IF nav.last.ev.validation_success = "False"
                  THEN "RETRYING" ELSE "COMPLETE"
       ELSE IF nav.last.before >= max_attempts
       THEN /\ nav.last.ctx.current_state = "ERROR"
            /\ nav.last.ctx.attempts = nav.last.before
       ELSE /\ nav.last.ctx.current_state = "PERSON_FOUND"
            /\ nav.last.ctx.attempts = nav.last.before + 1

C18_Witness ==
    /\ TransitionFrom("PERSON_FOUND")
    /\ nav.last.ev.email_found = "jane@testco.com"
    /\ nav.last.ev.validation_success = "False"
    /\ nav.last.ctx.current_state = "RETRYING"
    /\ nav.last.ctx.found_email = "jane@testco.com"

\* C19: attempts stays within 0..max_attempts, and in SEARCHING an event
\* without person_found moves to ERROR exactly when attempts has reached
\* max_attempts and otherwise adds one to attempts and stays in SEARCHING.
C19_AttemptsBounded ==
    /\ nav.context.attempts >= 0
    /\ nav.context.attempts <= max_attempts
    /\ (TransitionFrom("SEARCHING") /\ nav.last.ev.person_found = None) =>
          IF nav.last.before = max_attempts
          THEN /\ nav.last.ctx.current_state = "ERROR"
               /\ nav.last.ctx.attempts = nav.last.before
          ELSE /\ nav.last.ctx.current_state = "SEARCHING"
               /\ nav.last.ctx.attempts = nav.last.before + 1

C19_Witness ==
    /\ TransitionFrom("SEARCHING")
    /\ nav.last.ev.person_found = None
    /\ nav.last.before = max_attempts
    /\ nav.last.ctx.current_state = "ERROR"

\* the last step was load_state() reading a snapshot that a transition wrote
LoadedTransitionSnapshot ==
    /\ nav.last.kind = "load_state"
    /\ nav.last.read.present
    /\ nav.last.read.by = "transition"

\* C20: load_state() applied to the snapshot a transition wrote returns a
\* context with the current_state, target_company, target_role, found_person,
\* found_email and attempts that the live context had after that transition.
C20_RoundTrip ==
    LoadedTransitionSnapshot =>
       /\ nav.last.exc = NoExc
       /\ StateData(nav.last.ctx) = nav.last.read.data

C27_ExhaustedToError ==
    (/\ nav.last.kind = "transition"
     /\ nav.last.exc = NoExc
     /\ nav.last.armed
     /\ ~TimedOut(nav.last.elapsed)
     /\ nav.last.ev.person_found = None)
       => nav.last.ctx.current_state = "ERROR"

\* C28: current_state is never EMAIL_FOUND or VALIDATING: the states reached
\* are INITIAL, SEARCHING, PERSON_FOUND, RETRYING, ERROR and COMPLETE only.
C28_ReachableStates ==
    nav.context.present =>
       nav.context.current_state \in
          {"INITIAL", "SEARCHING", "PERSON_FOUND", "RETRYING", "ERROR", "COMPLETE"}

C28_Witness ==
    /\ TransitionFrom("PERSON_FOUND")
    /\ nav.last.ev.email_found # None
    /\ nav.context.present
    /\ nav.context.current_state = "COMPLETE"
    /\ nav.context.found_email = "jane@testco.com"

(***************************************************************************)
(* RateLimiter.acquire and RateLimiter.execute, called by NCallers tasks   *)
(* of one event loop.  acquire holds no await between reading the window   *)
(* and appending to it, so one turn of its loop is one step.               *)
(***************************************************************************)
LimiterOnly == UNCHANGED <<orchVars, pattern_cache, batchVars, stageVars, cleaner, nav, collector>>

\* ts > window_start
InWindow(ts, window_start) == ts > window_start

\* [ts for ts in self.requests[key] if ts > window_start]
Prune(reqs, window_start) == SelectSeq(reqs, LAMBDA ts : InWindow(ts, window_start))

HasRoomInclusive(n) == n <= rate_limit

\* len(self.requests[key]) < self.rate_limit
HasRoom(n) == n < rate_limit

\* self.requests[key].append(now); break
Grant(l, c, key, t, reqs) ==
    [l EXCEPT !.requests[key] = Append(reqs, t),
              !.grants[key] = Append(@, t),
              !.callers[c].pc = IF l.callers[c].via = "execute" THEN "running" ELSE "done",
              !.callers[c].granted_at = t]

\* wait_time = (self.requests[key][0] - window_start).total_seconds();
\* await asyncio.sleep(wait_time)
Sleep(l, c, key, t, reqs) ==
    [l EXCEPT !.requests[key] = reqs,
              !.callers[c].pc = "sleeping",
              !.callers[c].since = t,
              !.callers[c].until = t + (reqs[1] - (t - window_size)),
              !.callers[c].waited = TRUE]

LoopBody(l, c, key, t, reqs) ==
    IF HasRoom(Len(reqs)) THEN Grant(l, c, key, t, reqs) ELSE Sleep(l, c, key, t, reqs)

\* one turn of the while loop of acquire(key), made by caller c at time t
AcquireTurn(l, c, key, t) == LoopBody(l, c, key, t, Prune(l.requests[key], t - window_size))

\* the callers make their calls in the order of their numbers
IsNextCaller(c) ==
    /\ limiter.callers[c].pc = "idle"
    /\ \A b \in Callers : b < c => limiter.callers[b].pc # "idle"

\* await limiter.acquire(key)
CallAcquire(c, key) ==
    /\ IsNextCaller(c)
    /\ limiter' = AcquireTurn([limiter EXCEPT !.callers[c].key = key,
                                              !.callers[c].via = "acquire"],
                              c, key, limiter.clock)
    /\ LimiterOnly

\* a run of execute(key, func) begins: async with self.semaphore, then
\* await self.acquire(key)
EnterExecute(l, c, key) ==
    AcquireTurn([l EXCEPT !.semaphore = @ - 1,
                          !.callers[c].key = key,
                          !.callers[c].via = "execute",
                          !.callers[c].attempts = @ + 1],
                c, key, l.clock)

\* await limiter.execute(key, func)
CallExecute(c, key) ==
    /\ IsNextCaller(c)
    /\ limiter.semaphore > 0
    /\ limiter' = EnterExecute(limiter, c, key)
    /\ LimiterOnly

\* asyncio.sleep(wait_time) is over: the loop of acquire turns again
WakeUp(c) ==
    /\ limiter.callers[c].pc = "sleeping"
    /\ limiter.clock >= limiter.callers[c].until
    /\ limiter' = AcquireTurn(limiter, c, limiter.callers[c].key, limiter.clock)
    /\ LimiterOnly

\* return await func(*args, **kwargs)
FuncReturn(c) ==
    /\ limiter.callers[c].pc = "running"
    /\ limiter' = [limiter EXCEPT !.semaphore = @ + 1, !.callers[c].pc = "done"]
    /\ LimiterOnly

\* func raises: execute logs and re-raises, and @retry runs execute again
\* after wait_exponential(multiplier=1, min=4, max=10) unless
\* stop_after_attempt(3) is reached
FuncRaise(c) ==
    /\ limiter.callers[c].pc = "running"
    /\ limiter.raises < MaxRaises
    /\ limiter' = [limiter EXCEPT
                      !.semaphore = @ + 1,
                      !.raises = @ + 1,
                      !.callers[c].pc =
                          IF limiter.callers[c].attempts >= RetryStop
                          THEN "done" ELSE "backoff",
                      !.callers[c].until = limiter.clock + RetryWaitMin]
    /\ LimiterOnly

\* the retry's wait is over: execute runs again
Retry(c) ==
    /\ limiter.callers[c].pc = "backoff"
    /\ limiter.clock >= limiter.callers[c].until
    /\ limiter.semaphore > 0
    /\ limiter' = EnterExecute(limiter, c, limiter.callers[c].key)
    /\ LimiterOnly

LimiterTick(d) ==
    /\ limiter.clock + d <= MaxTime
    /\ limiter' = [limiter EXCEPT !.clock = @ + d]
    /\ LimiterOnly

LimiterInit ==
    /\ Constructed
    /\ disk_cache = [k \in CacheKeys |-> NoEntry]
    /\ NoBatch
    /\ NoStage
    /\ NoCleanup
    /\ NoNavigation
    /\ NoLimiter
    /\ NoCollector

LimiterNext ==
    \/ \E c \in Callers, key \in LimiterKeys : CallAcquire(c, key)
    \/ \E c \in Callers, key \in LimiterKeys : CallExecute(c, key)
    \/ \E c \in Callers : WakeUp(c)
    \/ \E c \in Callers : FuncReturn(c)
    \/ \E c \in Callers : FuncRaise(c)
    \/ \E c \in Callers : Retry(c)
    \/ \E d \in TickSizes : LimiterTick(d)

LimiterSpec == LimiterInit /\ [][LimiterNext]_vars

\* the grants of a key that lie in the window (t - window_size, t]
GrantsInWindow(key, t) ==
    {j \in 1..Len(limiter.grants[key]) :
        /\ limiter.grants[key][j] > t - window_size
        /\ limiter.grants[key][j] <= t}

\* C25: for each key, no 60-second window ending at a grant holds more than
\* requests_per_minute grants, and a caller that found the window full
\* sleeps until the oldest grant of that window is 60 seconds old: the window
\* was full when its sleep began, its sleep ends 60 seconds after a grant of
\* that key, and it is granted no earlier than that.
C25_WindowBound ==
    /\ \A key \in LimiterKeys :
          \A i \in 1..Len(limiter.grants[key]) :
             Cardinality(GrantsInWindow(key, limiter.grants[key][i])) <= rate_limit
    /\ \A c \in Callers :
          /\ limiter.callers[c].pc = "sleeping" =>
                /\ Cardinality(GrantsInWindow(limiter.callers[c].key,
                                              limiter.callers[c].since)) = rate_limit
                /\ \E j \in GrantsInWindow(limiter.callers[c].key, limiter.callers[c].since) :
                      /\ limiter.callers[c].until =
                            limiter.grants[limiter.callers[c].key][j] + window_size
                      /\ \A i \in GrantsInWindow(limiter.callers[c].key,
                                                 limiter.callers[c].since) : j <= i
          /\ (limiter.callers[c].waited /\ limiter.callers[c].pc \in {"running", "done"}) =>
                limiter.callers[c].granted_at >= limiter.callers[c].until

\* a third caller of one key slept and was granted exactly when the oldest
\* grant was 60 seconds old
C25_Witness ==
    \E c \in Callers :
       /\ limiter.callers[c].waited
       /\ limiter.callers[c].pc = "done"
       /\ limiter.callers[c].key = "test"
       /\ limiter.callers[c].granted_at = limiter.callers[c].until
       /\ Len(limiter.grants["test"]) = rate_limit + 1

(***************************************************************************)
(* ResultCollector: add_result, update_result, remove_result, and a new    *)
(* collector constructed on the same storage directory.  The operations    *)
(* are called one after the other, each awaited to its end.                *)
(***************************************************************************)
CollectorOnly == UNCHANGED <<orchVars, pattern_cache, batchVars, stageVars, cleaner, nav, limiter>>

ShouldUpdateNewer(existing, new) ==
    \/ new.confidence > existing.confidence
    \/ new.email # "None" /\ existing.email = "None"
    \/ new.found_at > existing.found_at

\* _should_update(existing, new)
ShouldUpdate(existing, new) ==
    \/ new.confidence > existing.confidence
    \/ new.email # "None" /\ existing.email = "None"
    \/ new.confidence = existing.confidence /\ new.found_at > existing.found_at

\* result_dict of _save_result, as json.dumps writes it
ResultDict(result) ==
    [company_name |-> result.company_name, person_name |-> result.person_name,
     email |-> result.email, confidence |-> result.confidence,
     found_at |-> result.found_at, present |-> TRUE]

\* SearchResult(company_name=data["company_name"], ...) of _load_cached_results
FromDict(data) ==
    [company_name |-> data.company_name, person_name |-> data.person_name,
     email |-> data.email, confidence |-> data.confidence,
     found_at |-> data.found_at, present |-> TRUE]

\* _save_result(result): the file named after the key generated now
SaveResult(files, result) ==
    [files EXCEPT ![GenerateResultKey(result)] = ResultDict(result)]

\* the files of the directory whose content generates key k
FilesFor(files, k) ==
    {f \in ResultKeys : files[f].present /\ GenerateResultKey(FromDict(files[f])) = k}

\* self.results after _load_cached_results
LoadedResults(files) ==
    [k \in ResultKeys |->
        IF FilesFor(files, k) = {} THEN Absent
        ELSE FromDict(files[CHOOSE f \in FilesFor(files, k) : TRUE])]

\* self.company_cache after _load_cached_results
LoadedCache(files) ==
    [c \in CompanyKeys |->
        {GenerateResultKey(FromDict(files[f])) :
            f \in {g \in ResultKeys : files[g].present /\ Lower(files[g].company_name) = c}}]

\* what an operation leaves
Collected(op, key, arg, upd, ret, res, cache, files) ==
    /\ collector' = [results |-> res, company_cache |-> cache, files |-> files,
                     ops |-> collector.ops + 1,
                     last |-> [op |-> op, key |-> key, arg |-> arg, upd |-> upd,
                               ret |-> ret, before |-> collector.results[key]]]
    /\ CollectorOnly

\* add_result(result) for a key that is stored
AddDuplicate(result, key) ==
    IF ShouldUpdate(collector.results[key], result)
    THEN Collected("add", key, result, NoUpdate, TRUE,
                   [collector.results EXCEPT ![key] = result],
                   collector.company_cache,
                   SaveResult(collector.files, result))
    ELSE Collected("add", key, result, NoUpdate, FALSE,
                   collector.results, collector.company_cache, collector.files)

\* add_result(result) for a key that is not stored
AddNew(result, key) ==
    Collected("add", key, result, NoUpdate, TRUE,
              [collector.results EXCEPT ![key] = result],
              [collector.company_cache EXCEPT ![Lower(result.company_name)] = @ \cup {key}],
              SaveResult(collector.files, result))

\* await collector.add_result(result)
AddResult(result) ==
    /\ collector.ops < MaxOps
    /\ IF collector.results[GenerateResultKey(result)].present
       THEN AddDuplicate(result, GenerateResultKey(result))
       ELSE AddNew(result, GenerateResultKey(result))

\* setattr(result, field, value) for the one field of updates
Apply(result, upd) ==
    CASE upd.field = "confidence" -> [result EXCEPT !.confidence = upd.num]
      [] upd.field = "email" -> [result EXCEPT !.email = upd.str]
      [] upd.field = "person_name" -> [result EXCEPT !.person_name = upd.str]
      [] upd.field = "company_name" -> [result EXCEPT !.company_name = upd.str]

\* await collector.update_result(key, updates)
UpdateResult(key, upd) ==
    /\ collector.ops < MaxOps
    /\ IF ~collector.results[key].present
       THEN Collected("update", key, Absent, upd, FALSE,
                      collector.results, collector.company_cache, collector.files)
       ELSE Collected("update", key, Apply(collector.results[key], upd), upd, TRUE,
                      [collector.results EXCEPT ![key] = Apply(@, upd)],
                      collector.company_cache,
                      SaveResult(collector.files, Apply(collector.results[key], upd)))

\* await collector.remove_result(key)
RemoveResult(key) ==
    /\ collector.ops < MaxOps
    /\ IF ~collector.results[key].present
       THEN Collected("remove", key, Absent, NoUpdate, FALSE,
                      collector.results, collector.company_cache, collector.files)
       ELSE Collected("remove", key, Absent, NoUpdate, TRUE,
                      [collector.results EXCEPT ![key] = Absent],
                      [collector.company_cache EXCEPT
                          ![Lower(collector.results[key].company_name)] = @ \ {key}],
                      [collector.files EXCEPT ![key] = Absent])

\* ResultCollector(storage_dir) on the directory as it is now
Construct ==
    /\ collector.ops < MaxOps
    /\ collector' = [results |-> LoadedResults(collector.files),
                     company_cache |-> LoadedCache(collector.files),
                     files |-> collector.files,
                     ops |-> collector.ops + 1,
                     last |-> [NoOp EXCEPT !.op = "construct", !.ret = TRUE]]
    /\ CollectorOnly

\* get_company_results(company_name), as a set
GetCompanyResults(company_name) ==
    {collector.results[k] :
        k \in {j \in collector.company_cache[Lower(company_name)] : collector.results[j].present}}

CollectorInit ==
    /\ Constructed
    /\ disk_cache = [k \in CacheKeys |-> NoEntry]
    /\ NoBatch
    /\ NoStage
    /\ NoCleanup
    /\ NoNavigation
    /\ NoLimiter
    /\ NoCollector

CollectorNext ==
    \/ \E result \in SearchResults : AddResult(result)
    \/ \E key \in ResultKeys, upd \in Updates : UpdateResult(key, upd)
    \/ \E key \in ResultKeys : RemoveResult(key)
    \/ Construct

CollectorSpec == CollectorInit /\ [][CollectorNext]_vars

\* the last operation was add_result of a result whose key was stored with a
\* higher confidence
AddedLower ==
    /\ collector.last.op = "add"
    /\ collector.last.before.present
    /\ collector.last.arg.confidence < collector.last.before.confidence

\* the new result has an email and the stored one had none
BringsEmail == collector.last.arg.email # "None" /\ collector.last.before.email = "None"

\* C23 (as the code has it): add_result stores a result under the key
\* generated from its company and person, one result per key, and for a key
\* already stored and a new result of lower confidence it returns False and
\* leaves the stored result unchanged, unless the new result has an email and
\* the stored one has none: then it replaces the stored result and returns
\* True.
C23_DuplicateLower ==
    /\ (collector.last.op = "add" /\ collector.last.ret) =>
          /\ collector.last.key = GenerateResultKey(collector.last.arg)
          /\ collector.results[collector.last.key] = collector.last.arg
    /\ (AddedLower /\ ~BringsEmail) =>
          /\ ~collector.last.ret
          /\ collector.results[collector.last.key] = collector.last.before
    /\ (AddedLower /\ BringsEmail) =>
          /\ collector.last.ret
          /\ collector.results[collector.last.key] = collector.last.arg

\* a duplicate of lower confidence was refused
C23_Witness ==
    /\ AddedLower
    /\ ~BringsEmail
    /\ ~collector.last.ret
    /\ collector.results[collector.last.key].confidence = 900

\* C23 (as stated): add_result for a key already stored, with a new result
\* of lower confidence, returns False and leaves the stored result unchanged.
C23_AsStated ==
    AddedLower =>
       /\ ~collector.last.ret
       /\ collector.results[collector.last.key] = collector.last.before

\* C24: after any sequence of add_result, update_result and remove_result, a
\* new ResultCollector constructed on the same storage directory holds
\* exactly the key-to-result map of the first one.
C24_ReloadSame == LoadedResults(collector.files) = collector.results

\* the stored results of a company, compared case-insensitively
StoredOf(company_name) ==
    {collector.results[k] :
        k \in {j \in ResultKeys :
                  /\ collector.results[j].present
                  /\ Lower(collector.results[j].company_name) = Lower(company_name)}}

\* C29: after any sequence of add_result, update_result and remove_result,
\* get_company_results(c) returns exactly the stored results whose
\* company_name equals c case-insensitively, and no removed result.
C29_CompanyResults ==
    \A c \in CompanyNames :
       /\ GetCompanyResults(c) = StoredOf(c)
       /\ \A r \in GetCompanyResults(c) : r.present

(***************************************************************************)
(* validate_email called on one ValidationService, one call after the      *)
(* other, the pattern cache being what the earlier calls learned.          *)
(***************************************************************************)
MaxValidations == 2

Local_bad == <<"j", "+">>

\* the email arguments: addresses, one of them with a character the basic
\* regex refuses, and a text without '@'
EmailArgs ==
    {Addr(l, d) : l \in {Local_john, Local_jd, Local_bad}, d \in {"acme.com", "beta.com"}}
       \cup {NoAt(Local_john)}

\* the domain arguments: None or a domain
DomainArgs == {NoDomain, "acme.com", "beta.com"}

\* the number of validate_email calls made
Validations == IF input.kind = "email" THEN input.n ELSE 0

\* await validation_service.validate_email(email, domain); input keeps the
\* arguments and the pattern cache the call found, output what it returned
Validated_email(email, domain, v) ==
    /\ input' = [kind |-> "email", email |-> email, domain |-> domain,
                 before |-> pattern_cache, n |-> Validations + 1]
    /\ output' = [step |-> "email",
                  out |-> <<[is_valid |-> v.is_valid, confidence |-> v.confidence]>>,
                  exc |-> NoExc, errs |-> 0]
    /\ pattern_cache' = v.pcache
    /\ UNCHANGED <<orchVars, batchVars, cleaner, nav, limiter, collector>>

CallValidateEmail(email, domain) ==
    /\ input.kind \in {"none", "email"}
    /\ Validations < MaxValidations
    /\ Validated_email(email, domain, ValidateEmail(email, domain, pattern_cache))

EmailInit ==
    /\ Constructed
    /\ disk_cache = [k \in CacheKeys |-> NoEntry]
    /\ NoBatch
    /\ NoStage
    /\ NoCleanup
    /\ NoNavigation
    /\ NoLimiter
    /\ NoCollector

EmailNext == \E email \in EmailArgs, domain \in DomainArgs : CallValidateEmail(email, domain)

EmailSpec == EmailInit /\ [][EmailNext]_vars

\* the three checks as the statement has them, for the last call
FormatFails == ~EmailPatternMatches(input.email)
DomainDiffers == input.domain # NoDomain /\ input.email.dom # input.domain
PatternFails ==
    /\ input.email.dom \in Domains
    /\ input.before[input.email.dom].has
    /\ ~ReMatch(input.before[input.email.dom].pat, input.email.local)

\* C22: for every email string and optional domain, validate_email returns
\* is_valid = (no check failed) and confidence 1.0 multiplied by 0.3 if the
\* email fails the basic format regex, by 0.5 if a domain is supplied and the
\* email's domain differs from it, and by 0.7 if a learned pattern exists for
\* the email's domain and the local part fails to match it.
C22_ConfidenceFormula ==
    input.kind = "email" =>
       /\ output.out[1].is_valid = ~(FormatFails \/ DomainDiffers \/ PatternFails)
       /\ output.out[1].confidence =
             Penalize(Penalize(Penalize(Scale, FormatFails, 3), DomainDiffers, 5),
                      PatternFails, 7)

\* the same for the emails that hold an '@'
C22_WithAt == input.kind = "email" /\ input.email.kind = "ok" => C22_ConfidenceFormula

(***************************************************************************)
(* _validate_contact_info called on the candidates of one company, one     *)
(* after the other, as the loop of _merge_results does.                    *)
(***************************************************************************)
MaxContacts == 2

\* the number of _validate_contact_info calls made
ContactsValidated == IF input.kind = "contact" THEN input.n ELSE 0

\* input keeps the candidate and the pattern cache the call found, output the
\* bool it returned
ContactValidated(cand, domain, v) ==
    /\ input' = [kind |-> "contact", cand |-> cand, domain |-> domain,
                 before |-> pattern_cache, n |-> ContactsValidated + 1]
    /\ output' = [step |-> "contact", out |-> <<v.ok>>, exc |-> NoExc, errs |-> 0]
    /\ pattern_cache' = v.pcache
    /\ UNCHANGED <<orchVars, batchVars, cleaner, nav, limiter, collector>>

\* await self._validate_contact_info(result, domain)
CallValidateContactInfo(cand, domain) ==
    /\ input.kind \in {"none", "contact"}
    /\ ContactsValidated < MaxContacts
    /\ ContactValidated(cand, domain, ValidateContactInfo(cand, domain, pattern_cache))

ContactInit ==
    /\ Constructed
    /\ disk_cache = [k \in CacheKeys |-> NoEntry]
    /\ NoBatch
    /\ NoStage
    /\ NoCleanup
    /\ NoNavigation
    /\ NoLimiter
    /\ NoCollector

ContactNext == \E cand \in Candidates("acme.com") : CallValidateContactInfo(cand, "acme.com")

ContactSpec == ContactInit /\ [][ContactNext]_vars

\* C30: whether a candidate is accepted by _validate_contact_info does not
\* depend on which other candidates were validated before it: the answer is
\* the one the candidate gets when it is the first to be validated, so that
\* every processing order of the same candidates accepts the same ones.
C30_OrderIndependent ==
    input.kind = "contact" =>
       output.out[1] = ValidateContactInfo(input.cand, input.domain, EmptyPatternCache).ok

(***************************************************************************)
(* enrich_company for one company, called twice without force_refresh,     *)
(* with source agents that may raise at every attempt.                     *)
(***************************************************************************)
MaxExhaustFails == 6

\* the agent's search raises, whatever the source
AgentFail(c, s) ==
    /\ tasks[c, s].pc = "searching"
    /\ TotalFails < MaxExhaustFails
    /\ Raised(c, s)

ExhaustNext ==
    \/ \E c \in Calls : EnterCall(c, "Acme", FALSE)
    \/ \E c \in Calls : DiskRead(c)
    \/ \E c \in Calls, s \in Sources : TaskStart(c, s)
    \/ \E c \in Calls, s \in Sources : AgentReturn(c, s, <<GoodCand("acme.com")>>)
    \/ \E c \in Calls, s \in Sources : AgentFail(c, s)
    \/ \E c \in Calls, s \in Sources : Wake(c, s)
    \/ \E c \in Calls : GatherDone(c)
    \/ \E d \in {1, TTL - 1} : Tick(d)

ExhaustSpec == Init /\ [][ExhaustNext]_vars

\* every source of call c raised at each of its attempts
AllExhausted(c) ==
    \A s \in Sources :
       /\ tasks[c, s].pc = "done"
       /\ tasks[c, s].returned.kind = "none"
       /\ tasks[c, s].fails = MaxRetryAttempt + 1

\* at least one source of call c returned a list
SomeReturned(c) == \E s \in Sources : tasks[c, s].returned.kind = "list"

\* the entry was written by call c of this run
WrittenBy(entry, c) ==
    /\ entry.present
    /\ calls[c].pc = "done"
    /\ calls[c].how = "fresh"
    /\ entry.result = calls[c].result

\* C26: a result is written to the enrichment cache only when at least one
\* source returned successfully: no cache entry, in memory or on disk, was
\* left by a call whose sources all exhausted their retries, and the next
\* call for the same key with force_refresh=False, made after that call
\* returned and within the TTL, has dispatched the sources again once past
\* its cache checks and returns no cached result.
C26_NoCachedFailure ==
    /\ \A c \in Calls :
          AllExhausted(c) =>
             /\ ~WrittenBy(result_cache[KeyOf(c)], c)
             /\ ~WrittenBy(disk_cache[KeyOf(c)], c)
    /\ \A c \in Calls :
          (calls[c].follows /\ AllExhausted(c - 1) /\ calls[c].pc \in {"gather", "done"}) =>
             /\ calls[c].how \notin {"memory", "disk"}
             /\ \A s \in Sources : tasks[c, s].pc # "none"

\* both sources of the first call exhausted their retries, the call ended,
\* and the second call for the same key dispatched its sources
C26_Witness ==
    /\ AllExhausted(1)
    /\ calls[1].pc = "done"
    /\ calls[2].pc = "gather"
    /\ calls[2].follows
    /\ \A s \in Sources : tasks[2, s].pc = "searching"

====
